---- MODULE Spec2Model ----
(***************************************************************************)
(* Operation-based synchronisation of the design canvas.                   *)
(*                                                                         *)
(*   client  : SingleDesignCanvas (src/unnamed/part_000)                   *)
(*   algebra : applyOperation / invertOperation / getShapeChanges          *)
(*             (src/components/canvas/operations.ts)                       *)
(*   store   : applyOperations / applyOperation / getOperationsSince       *)
(*             (src/convex/designOperations.ts)                            *)
(*                                                                         *)
(* Field values are opaque strings.  Operation timestamps (Date.now())     *)
(* are carried by the code but read by nothing modelled here, so they are  *)
(* left out of the records.                                                *)
(***************************************************************************)
EXTENDS Integers, Sequences, FiniteSets, TLC

\* Number of locally originated edits of all sessions together.
MaxOps == 2

\* Number of undo steps of all sessions together.
MaxUndo == 1

\* Number of append calls that reject on the client, all sessions together.
MaxFail == 1

\* Number of append calls explored against the bare store.
MaxCalls == 3

\* getOperationsSince: const bufferMs = 100
bufferMs == 100

Clients == {"A", "B"}

\* The keys of a shape; an UpdateShape may carry any of them.
Fields == {"id", "type", "x", "fill", "shadow", "points"}

\* A field that is undefined on a shape / a key with the value undefined.
Undef == "undef"

\* A key that is not present in a partial field map.
Absent == "absent"

\* The id key holds a number, so its missing value is a number too.
AbsentOf(f) == IF f = "id" THEN 0 ELSE Absent

XValues == {"0", "10"}
FillValues == {Undef, "red", "blue"}

NoShape == [f \in Fields |-> AbsentOf(f)]
EmptyMap == [f \in Fields |-> AbsentOf(f)]
NoId == [c |-> "none", n |-> 0, inv |-> FALSE]

Max(a, b) == IF a >= b THEN a ELSE b

IsPrefixOf(p, q) == Len(p) <= Len(q) /\ SubSeq(q, 1, Len(p)) = p

VARIABLES
  log,               \* designOperations table of the document, in _creationTime order
  shapes,            \* [client -> Seq(shape)]   useState shapes
  undoStack,         \* [client -> Seq(op)]      useState undoStack
  pendingOps,        \* [client -> Seq(op)]      pendingOpsRef
  flushTimeout,      \* [client -> BOOLEAN]      flushTimeoutRef is armed
  lastCreationTime,  \* [client -> Nat]          sync cursor
  appliedOpIds,      \* [client -> SUBSET ids]   appliedOpIdsRef
  inflight,          \* [client -> Seq(batch)]   append RPCs awaiting their result
  alive,             \* [client -> BOOLEAN]      component mounted
  nextOp,            \* [client -> Nat]          operation ids handed out so far
  nextShapeId,       \* Nat                      shape ids handed out so far
  everApplied,       \* history: [client -> ids folded into shapes[c]]
  dupApplied,        \* history: <<client, id>> folded a second time
  teardownOps,       \* history: [client -> ids queued at unmount]
  undone,            \* history: undo steps taken
  failures,          \* history: append calls that rejected on the client
  resent,            \* history: ids sent to the store when already stored
  lastUndo,          \* history: the last undo step
  requeued,          \* history: [client -> the last failed flush]
  storeCalls,        \* history: calls made to the bare store
  rpcResult,         \* result of the last call made to the bare store
  fnS, fnOp, fnR1, fnR2, fnStage,  \* inputs and results of the operation algebra
  undoCalls,         \* history: calls of undo() and what the last one found
  ui,                \* [client -> tool, selection and the refs of a pointer gesture]
  gesture,           \* history: [client -> the pointer gesture under way or done]
  remoteOps,         \* [client -> the result the subscription delivered last]
  designs            \* the design each session shows, the rows of the second
                     \* design, and the appends called for the design left

clientVars == <<shapes, undoStack, pendingOps, flushTimeout, lastCreationTime,
                appliedOpIds, inflight, alive>>
idVars == <<nextOp, nextShapeId>>
histVars == <<everApplied, dupApplied, teardownOps, undone, failures, resent,
              lastUndo, requeued>>
storeVars == <<storeCalls, rpcResult>>
fnVars == <<fnS, fnOp, fnR1, fnR2, fnStage>>
auxVars == <<undoCalls, ui, gesture, remoteOps, designs>>
vars == <<log, shapes, undoStack, pendingOps, flushTimeout, lastCreationTime,
          appliedOpIds, inflight, alive, nextOp, nextShapeId, everApplied,
          dupApplied, teardownOps, undone, failures, resent, lastUndo, requeued,
          storeCalls, rpcResult, fnS, fnOp, fnR1, fnR2, fnStage, undoCalls,
          ui, gesture, remoteOps, designs>>

----------------------------------------------------------------------------
\* Operation model (operations.ts)

createAddShapeOp(id, clientId, shape) ==
  [id |-> id, type |-> "addShape", clientId |-> clientId, shapeId |-> 0,
   shape |-> shape, deletedShape |-> NoShape,
   updates |-> EmptyMap, previousValues |-> EmptyMap]

createUpdateShapeOp(id, clientId, shapeId, updates, previousValues) ==
  [id |-> id, type |-> "updateShape", clientId |-> clientId, shapeId |-> shapeId,
   shape |-> NoShape, deletedShape |-> NoShape,
   updates |-> updates, previousValues |-> previousValues]

createDeleteShapeOp(id, clientId, deletedShape) ==
  [id |-> id, type |-> "deleteShape", clientId |-> clientId,
   shapeId |-> deletedShape.id,
   shape |-> NoShape, deletedShape |-> deletedShape,
   updates |-> EmptyMap, previousValues |-> EmptyMap]

\* invertOperation: the inverse gets a fresh id (newId) and the undoing client.
invertOperation(newId, clientId, op) ==
  CASE op.type = "addShape" -> createDeleteShapeOp(newId, clientId, op.shape)
    [] op.type = "deleteShape" -> createAddShapeOp(newId, clientId, op.deletedShape)
    [] op.type = "updateShape" ->
         createUpdateShapeOp(newId, clientId, op.shapeId, op.previousValues, op.updates)
    [] OTHER -> op

HasShape(ss, id) == \E i \in 1..Len(ss) : ss[i].id = id

\* { ...s, ...updates }
MergeShape(s, u) ==
  [f \in Fields |-> IF u[f] # AbsentOf(f) THEN u[f] ELSE s[f]]

\* The add case without its existence check.
AddShapeCaseUnchecked(ss, op) == Append(ss, op.shape)

AddShapeCase(ss, op) ==
  IF HasShape(ss, op.shape.id) THEN ss ELSE Append(ss, op.shape)

\* The delete case with its filter dropped.
DeleteShapeCaseKeepsAll(ss, op) == ss

DeleteShapeCase(ss, op) == SelectSeq(ss, LAMBDA s : s.id # op.shapeId)

\* The update case creating the shape it does not find.
UpdateShapeCaseUpsert(ss, op) ==
  IF ~HasShape(ss, op.shapeId)
  THEN Append(ss, MergeShape([NoShape EXCEPT !.id = op.shapeId], op.updates))
  ELSE [i \in 1..Len(ss) |->
          IF ss[i].id = op.shapeId THEN MergeShape(ss[i], op.updates) ELSE ss[i]]

UpdateShapeCase(ss, op) ==
  IF ~HasShape(ss, op.shapeId) THEN ss
  ELSE [i \in 1..Len(ss) |->
          IF ss[i].id = op.shapeId THEN MergeShape(ss[i], op.updates) ELSE ss[i]]

applyOperation(ss, op) ==
  CASE op.type = "addShape" -> AddShapeCase(ss, op)
    [] op.type = "deleteShape" -> DeleteShapeCase(ss, op)
    [] op.type = "updateShape" -> UpdateShapeCase(ss, op)
    [] OTHER -> ss

RECURSIVE applyOperations(_, _)
applyOperations(ss, ops) ==
  IF ops = <<>> THEN ss
  ELSE applyOperations(applyOperation(ss, Head(ops)), Tail(ops))

\* getShapeChanges(before, after): the keys whose serialized values differ.
ChangedField(before, after, f) == before[f] # after[f]

getShapeChanges(before, after) ==
  [updates |->
     [f \in Fields |->
        IF ChangedField(before, after, f) THEN after[f] ELSE AbsentOf(f)],
   previousValues |->
     [f \in Fields |->
        IF ChangedField(before, after, f) THEN before[f] ELSE AbsentOf(f)]]

\* JSON.stringify drops every key whose value is undefined.
StringifyMap(m) ==
  [f \in Fields |-> IF f # "id" /\ m[f] = Undef THEN Absent ELSE m[f]]

serializeOperation(op) ==
  [op EXCEPT !.updates = StringifyMap(op.updates),
             !.previousValues = StringifyMap(op.previousValues)]

OpTypes == {"addShape", "updateShape", "deleteShape"}

\* The kinds of the data model (CanvasShapeSchema of design-config).
ShapeKinds == {"rect", "ellipse", "line", "text", "svg", "image", "path"}

\* The kinds canvasShapeSchema of the operation schema is a union of.
SchemaKinds == {"rect", "ellipse", "line", "text", "svg", "image"}

\* canvasShapeSchema accepts a shape whose type is one of its members.
ShapeSchemaOk(shape) == shape.id # 0 /\ shape.type \in SchemaKinds

\* What a z.object parse returns: the keys the member schema does not
\* declare (shadow, points) are stripped.
ShapeSchemaData(shape) == [shape EXCEPT !.shadow = Undef, !.points = Undef]

\* canvasOperationSchema: a discriminated union on type; an add or delete
\* carries a shape, an update two records of any keys.
SchemaOk(opJson) ==
  /\ opJson.type \in OpTypes
  /\ opJson.type = "addShape" => ShapeSchemaOk(opJson.shape)
  /\ opJson.type = "deleteShape" => ShapeSchemaOk(opJson.deletedShape)

\* result.data of a successful parse.
SchemaData(opJson) ==
  CASE opJson.type = "addShape" ->
         [opJson EXCEPT !.shape = ShapeSchemaData(@)]
    [] opJson.type = "deleteShape" ->
         [opJson EXCEPT !.deletedShape = ShapeSchemaData(@)]
    [] OTHER -> opJson

\* The parse taken on trust: JSON.parse(data) as CanvasOperation.
deserializeOperation(opJson) == opJson

\* safeDeserializeOperation: the parsed operation, or null (type "null")
\* when the schema rejects it.
safeDeserializeOperation(opJson) ==
  IF SchemaOk(opJson) THEN SchemaData(opJson) ELSE [opJson EXCEPT !.type = "null"]

----------------------------------------------------------------------------
\* Store (designOperations.ts)

validateOperation(opJson) == SchemaOk(opJson)

StoredIndex(lg, operationId) ==
  {i \in 1..Len(lg) : lg[i].operationId = operationId}

FirstIndex(S) == CHOOSE i \in S : \A j \in S : i <= j

\* _creationTime of a freshly inserted document: later than every stored one.
NewCreationTime(lg) == IF lg = <<>> THEN 1 ELSE lg[Len(lg)].creationTime + 1

InsertEntry(lg, clientId, item) ==
  Append(lg, [operationId |-> item.operationId, operation |-> item.operation,
              clientId |-> clientId, creationTime |-> NewCreationTime(lg)])

\* The loop body without the by_operation_id lookup.
ApplyOneItemNoLookup(acc, clientId, item) ==
  [log |-> InsertEntry(acc.log, clientId, item),
   lastCreationTime |-> Max(acc.lastCreationTime, NewCreationTime(acc.log)),
   appliedCount |-> acc.appliedCount + 1]

\* One iteration of the loop of the applyOperations mutation.
ApplyOneItem(acc, clientId, item) ==
  LET existing == StoredIndex(acc.log, item.operationId) IN
  IF existing = {}
  THEN [log |-> InsertEntry(acc.log, clientId, item),
        lastCreationTime |-> Max(acc.lastCreationTime, NewCreationTime(acc.log)),
        appliedCount |-> acc.appliedCount + 1]
  ELSE [log |-> acc.log,
        lastCreationTime |->
          Max(acc.lastCreationTime, acc.log[FirstIndex(existing)].creationTime),
        appliedCount |-> acc.appliedCount]

RECURSIVE ApplyItems(_, _, _)
ApplyItems(acc, clientId, items) ==
  IF items = <<>> THEN acc
  ELSE ApplyItems(ApplyOneItem(acc, clientId, Head(items)), clientId, Tail(items))

\* applyOperations mutation: a transaction; a validation error aborts it whole.
applyOperationsMutation(lg, clientId, items) ==
  IF \E i \in 1..Len(items) : ~validateOperation(items[i].operation)
  THEN [ok |-> FALSE, log |-> lg, lastCreationTime |-> 0, appliedCount |-> 0]
  ELSE LET r == ApplyItems([log |-> lg, lastCreationTime |-> 0, appliedCount |-> 0],
                           clientId, items)
       IN [ok |-> TRUE, log |-> r.log, lastCreationTime |-> r.lastCreationTime,
           appliedCount |-> r.appliedCount]

\* The single-operation mutation without its by_operation_id lookup.
applyOperationMutationNoLookup(lg, clientId, item) ==
  IF ~validateOperation(item.operation)
  THEN [ok |-> FALSE, log |-> lg, creationTime |-> 0, isDuplicate |-> FALSE]
  ELSE [ok |-> TRUE, log |-> InsertEntry(lg, clientId, item),
        creationTime |-> NewCreationTime(lg), isDuplicate |-> FALSE]

\* applyOperation mutation (single operation).
applyOperationMutation(lg, clientId, item) ==
  IF ~validateOperation(item.operation)
  THEN [ok |-> FALSE, log |-> lg, creationTime |-> 0, isDuplicate |-> FALSE]
  ELSE LET existing == StoredIndex(lg, item.operationId) IN
       IF existing # {}
       THEN [ok |-> TRUE, log |-> lg,
             creationTime |-> lg[FirstIndex(existing)].creationTime,
             isDuplicate |-> TRUE]
       ELSE [ok |-> TRUE, log |-> InsertEntry(lg, clientId, item),
             creationTime |-> NewCreationTime(lg), isDuplicate |-> FALSE]

\* The rows read through the index, buffer zone included.
getOperationsSinceInBuffer(lg, sinceCreationTime, excludeClientId) ==
  SelectSeq(lg, LAMBDA e : e.creationTime > Max(0, sinceCreationTime - bufferMs))

\* getOperationsSince, from the rows of the by_design index range on: the
\* buffered read, then the filter on the client and the requested time.
getOperationsSince(lg, sinceCreationTime, excludeClientId) ==
  LET queryFrom == Max(0, sinceCreationTime - bufferMs)
      operations == SelectSeq(lg, LAMBDA e : e.creationTime > queryFrom)
  IN SelectSeq(operations,
               LAMBDA e : /\ e.clientId # excludeClientId
                          /\ e.creationTime > sinceCreationTime)

----------------------------------------------------------------------------
\* Client session (SingleDesignCanvas)

NewShape(id) ==
  [id |-> id, type |-> "rect", x |-> "0", fill |-> Undef, shadow |-> Undef,
   points |-> Undef]

\* design.initialShapes: the persisted snapshot every session is seeded from.
InitialShapesChoices == {<<>>, <<NewShape(1)>>}

NoOp == createUpdateShapeOp(NoId, "none", 0, EmptyMap, EmptyMap)

OpIds(ops) == {ops[i].id : i \in 1..Len(ops)}

\* The operation table holds a row with this operationId.
Stored(id) == \E i \in 1..Len(log) : log[i].operationId = id

NoRequeue == [batch |-> <<>>, during |-> <<>>]

NoUndo == [client |-> "none", op |-> NoOp, before |-> <<>>, after |-> <<>>,
           applied |-> {}]

NoResult == [ok |-> TRUE, lastCreationTime |-> 0, appliedCount |-> 0]

FnIdle ==
  /\ fnS = <<>> /\ fnOp = NoOp /\ fnR1 = <<>> /\ fnR2 = <<>> /\ fnStage = "off"

StoreIdle == storeCalls = 0 /\ rpcResult = NoResult

NoUndoCall == [n |-> 0, client |-> "none", empty |-> FALSE]

\* groupDragRef.current = null
NoDrag == [active |-> FALSE, originals |-> <<>>]

\* Tool, selection and gesture refs of a freshly mounted component.
UiIdle ==
  [tool |-> "select", isPointerDown |-> FALSE, selectedIds |-> <<>>,
   groupDrag |-> NoDrag, interactionOriginal |-> NoShape, createdShapeId |-> 0,
   pencilDraftId |-> 0, extendingPath |-> NoShape, draftId |-> 0,
   draftSized |-> FALSE, activeHandle |-> FALSE]

NoGesture == [phase |-> "idle", kind |-> "none", stackLen |-> 0, before |-> <<>>,
              atUp |-> <<>>]

\* Every session shows the first design; the second design has no rows yet.
OneDesign == [id |-> [c \in Clients |-> 1], table |-> <<>>,
              late |-> [c \in Clients |-> 0], left |-> [c \in Clients |-> {}],
              config |-> <<>>]

AuxIdle ==
  /\ designs = OneDesign
  /\ undoCalls = NoUndoCall
  /\ ui = [c \in Clients |-> UiIdle]
  /\ gesture = [c \in Clients |-> NoGesture]
  /\ remoteOps = [c \in Clients |-> <<>>]

\* useState / useRef initial values of every session seeded with init.
SessionsInit(init) ==
  /\ shapes = [c \in Clients |-> init]
  /\ nextShapeId = Len(init)
  /\ undoStack = [c \in Clients |-> <<>>]
  /\ pendingOps = [c \in Clients |-> <<>>]
  /\ flushTimeout = [c \in Clients |-> FALSE]
  /\ lastCreationTime = [c \in Clients |-> 0]
  /\ appliedOpIds = [c \in Clients |-> {}]
  /\ inflight = [c \in Clients |-> <<>>]
  /\ alive = [c \in Clients |-> TRUE]
  /\ nextOp = [c \in Clients |-> 0]
  /\ everApplied = [c \in Clients |-> {}]
  /\ dupApplied = {}
  /\ teardownOps = [c \in Clients |-> {}]
  /\ undone = 0
  /\ failures = 0
  /\ resent = {}
  /\ lastUndo = NoUndo
  /\ requeued = [c \in Clients |-> NoRequeue]

\* State after construction: a document with an empty operation table.
Init ==
  /\ log = <<>>
  /\ \E init \in InitialShapesChoices : SessionsInit(init)
  /\ StoreIdle
  /\ FnIdle
  /\ AuxIdle

\* History of the fold: ids folded into c's collection, and ids folded again.
NoteApplied(c, ids) ==
  /\ dupApplied' = dupApplied \cup {<<c, id>> : id \in ids \cap everApplied[c]}
  /\ everApplied' = [everApplied EXCEPT ![c] = @ \cup ids]

\* applyOperation(op, pushToUndo = true) of the component, followed by
\* scheduleFlush (the debounce timer is (re)armed).
LocalApply(c, op, inverse) ==
  /\ shapes' = [shapes EXCEPT ![c] = applyOperations(@, <<op>>)]
  /\ undoStack' = [undoStack EXCEPT ![c] = Append(@, inverse)]
  /\ pendingOps' = [pendingOps EXCEPT ![c] = Append(@, op)]
  /\ flushTimeout' = [flushTimeout EXCEPT ![c] = TRUE]
  /\ nextOp' = [nextOp EXCEPT ![c] = @ + 1]
  /\ NoteApplied(c, {op.id})
  /\ UNCHANGED <<log, lastCreationTime, appliedOpIds, inflight, alive>>
  /\ UNCHANGED <<teardownOps, undone, failures, resent, lastUndo, requeued>>
  /\ UNCHANGED <<storeVars, fnVars, auxVars>>

\* generateOperationId: unique per call.
FreshId(c) == [c |-> c, n |-> nextOp[c] + 1, inv |-> FALSE]
FreshInverseId(c) == [c |-> c, n |-> nextOp[c] + 1, inv |-> TRUE]

\* All sessions together originate at most MaxOps edits.
RECURSIVE SumOver(_, _)
SumOver(f, S) ==
  IF S = {} THEN 0
  ELSE LET c == CHOOSE c \in S : TRUE IN f[c] + SumOver(f, S \ {c})

CanEdit(c) == alive[c] /\ SumOver(nextOp, Clients) < MaxOps

\* addShapeOp with a shape from a factory (createShapeId is unique).
LocalAdd(c) ==
  /\ CanEdit(c)
  /\ LET op == createAddShapeOp(FreshId(c), c, NewShape(nextShapeId + 1)) IN
       LocalApply(c, op, invertOperation(FreshInverseId(c), c, op))
  /\ nextShapeId' = nextShapeId + 1

\* updateShapeOp(shapeId, currentShape, updates)
LocalUpdate(c, i, u) ==
  /\ CanEdit(c)
  /\ i \in 1..Len(shapes[c])
  /\ LET currentShape == shapes[c][i]
         ch == getShapeChanges(currentShape, MergeShape(currentShape, u))
         op == createUpdateShapeOp(FreshId(c), c, currentShape.id,
                                   ch.updates, ch.previousValues)
     IN /\ ch.updates # EmptyMap
        /\ LocalApply(c, op, invertOperation(FreshInverseId(c), c, op))
  /\ UNCHANGED nextShapeId

\* deleteShapeOp(shape)
LocalDelete(c, i) ==
  /\ CanEdit(c)
  /\ i \in 1..Len(shapes[c])
  /\ LET op == createDeleteShapeOp(FreshId(c), c, shapes[c][i]) IN
       LocalApply(c, op, invertOperation(FreshInverseId(c), c, op))
  /\ UNCHANGED nextShapeId

\* The undo stack with nothing taken off.
PopNone(stack) == stack

\* prev.slice(0, -1)
PopTop(stack) == SubSeq(stack, 1, Len(stack) - 1)

\* undo() past its early return: the top inverse is popped, applied and queued.
UndoPop(c) ==
  /\ alive[c]
  /\ undone < MaxUndo
  /\ undoStack[c] # <<>>
  /\ LET inverseOp == undoStack[c][Len(undoStack[c])] IN
       /\ undoStack' = [undoStack EXCEPT ![c] = PopTop(@)]
       /\ shapes' = [shapes EXCEPT ![c] = applyOperations(@, <<inverseOp>>)]
       /\ pendingOps' = [pendingOps EXCEPT ![c] = Append(@, inverseOp)]
       /\ NoteApplied(c, {inverseOp.id})
       /\ lastUndo' = [client |-> c, op |-> inverseOp, before |-> shapes[c],
                       after |-> applyOperations(shapes[c], <<inverseOp>>),
                       applied |-> appliedOpIds[c]]
  /\ flushTimeout' = [flushTimeout EXCEPT ![c] = TRUE]
  /\ undone' = undone + 1
  /\ UNCHANGED <<log, lastCreationTime, appliedOpIds, inflight, alive, idVars>>
  /\ UNCHANGED <<teardownOps, failures, resent, requeued>>

\* undo() on a non-empty stack.
Undo(c) == UndoPop(c) /\ UNCHANGED <<storeVars, fnVars, auxVars>>

\* flushPendingOps up to its await: the queue is taken and the ids marked.
FlushTaken(c) ==
  /\ inflight' = [inflight EXCEPT ![c] = Append(@, pendingOps[c])]
  /\ pendingOps' = [pendingOps EXCEPT ![c] = <<>>]
  /\ appliedOpIds' = [appliedOpIds EXCEPT ![c] = @ \cup OpIds(pendingOps[c])]
  /\ requeued' = [requeued EXCEPT ![c] = NoRequeue]

\* flushPendingOps: returns at once on an empty queue.
flushPendingOps(c) ==
  IF pendingOps[c] = <<>>
  THEN UNCHANGED <<inflight, pendingOps, appliedOpIds, requeued>>
  ELSE FlushTaken(c)

\* The debounce timer fires: flushPendingOps(); flushTimeoutRef = null.
TimerFire(c) ==
  /\ alive[c]
  /\ flushTimeout[c]
  /\ flushTimeout' = [flushTimeout EXCEPT ![c] = FALSE]
  /\ flushPendingOps(c)
  /\ UNCHANGED <<log, shapes, undoStack, lastCreationTime, alive, idVars>>
  /\ UNCHANGED <<everApplied, dupApplied, teardownOps, undone, failures, resent,
                 lastUndo>>
  /\ UNCHANGED <<storeVars, fnVars, auxVars>>

\* History: the ids of a batch that the store already holds.
AlreadyStored(lg, batch) ==
  {id \in OpIds(batch) : \E i \in 1..Len(lg) : lg[i].operationId = id}

WireItems(batch) ==
  [i \in 1..Len(batch) |->
     [operationId |-> batch[i].id, operation |-> serializeOperation(batch[i])]]

\* The catch branch with the batch put behind the queue.
RequeueBehind(opsToSend, queue) == queue \o opsToSend

\* The catch branch with the batch dropped.
RequeueNothing(opsToSend, queue) == queue

\* catch branch of flushPendingOps: the batch goes back in front of the queue.
Requeue(opsToSend, queue) == opsToSend \o queue

\* The awaited append resolves: the cursor takes the returned position
\* (a state update of an unmounted component is dropped).  The append calls
\* of one session reach the store one at a time, in call order.
FlushOk(c) ==
  /\ inflight[c] # <<>>
  /\ LET r == applyOperationsMutation(log, c, WireItems(Head(inflight[c]))) IN
       /\ r.ok
       /\ log' = r.log
       /\ lastCreationTime' =
            IF alive[c]
            THEN [lastCreationTime EXCEPT ![c] = Max(@, r.lastCreationTime)]
            ELSE lastCreationTime
  /\ resent' = resent \cup AlreadyStored(log, Head(inflight[c]))
  /\ inflight' = [inflight EXCEPT ![c] = Tail(@)]
  /\ UNCHANGED <<shapes, undoStack, pendingOps, flushTimeout, appliedOpIds, alive,
                 idVars>>
  /\ UNCHANGED <<everApplied, dupApplied, teardownOps, undone, failures, lastUndo,
                 requeued>>
  /\ UNCHANGED <<storeVars, fnVars, auxVars>>

\* History: the batch put back and the operations queued while it was away.
NoteRequeue(c) ==
  requeued' = [requeued EXCEPT ![c] =
                 [batch |-> Head(inflight[c]), during |-> pendingOps[c]]]

\* The awaited append rejects and nothing was stored.
FlushFail(c) ==
  /\ inflight[c] # <<>>
  /\ failures < MaxFail
  /\ failures' = failures + 1
  /\ pendingOps' = [pendingOps EXCEPT ![c] = Requeue(Head(inflight[c]), @)]
  /\ NoteRequeue(c)
  /\ inflight' = [inflight EXCEPT ![c] = Tail(@)]
  /\ UNCHANGED <<log, shapes, undoStack, flushTimeout, lastCreationTime,
                 appliedOpIds, alive, idVars>>
  /\ UNCHANGED <<everApplied, dupApplied, teardownOps, undone, resent, lastUndo>>
  /\ UNCHANGED <<storeVars, fnVars, auxVars>>

\* The awaited append rejects on the client although the store committed it
\* (the connection dropped before the result arrived).
FlushLostAck(c) ==
  /\ inflight[c] # <<>>
  /\ failures < MaxFail
  /\ failures' = failures + 1
  /\ LET r == applyOperationsMutation(log, c, WireItems(Head(inflight[c]))) IN
       /\ r.ok
       /\ log' = r.log
  /\ resent' = resent \cup AlreadyStored(log, Head(inflight[c]))
  /\ pendingOps' = [pendingOps EXCEPT ![c] = Requeue(Head(inflight[c]), @)]
  /\ NoteRequeue(c)
  /\ inflight' = [inflight EXCEPT ![c] = Tail(@)]
  /\ UNCHANGED <<shapes, undoStack, flushTimeout, lastCreationTime,
                 appliedOpIds, alive, idVars>>
  /\ UNCHANGED <<everApplied, dupApplied, teardownOps, undone, lastUndo>>
  /\ UNCHANGED <<storeVars, fnVars, auxVars>>

\* The loop body with the position taken only from the entries it applies.
RemoteStepAppliedOnly(acc, e) ==
  LET isNew == e.operationId \notin acc.applied
      deserializedOp == safeDeserializeOperation(e.operation)
      applies == isNew /\ deserializedOp.type # "null"
  IN [newOps |-> IF applies THEN Append(acc.newOps, deserializedOp) ELSE acc.newOps,
      applied |-> IF isNew THEN acc.applied \cup {e.operationId} ELSE acc.applied,
      maxCreationTime |-> IF applies THEN Max(acc.maxCreationTime, e.creationTime)
                          ELSE acc.maxCreationTime]

\* One iteration of the loop of the remote-operations effect.
RemoteStep(acc, e) ==
  LET isNew == e.operationId \notin acc.applied
      deserializedOp == safeDeserializeOperation(e.operation)
  IN [newOps |-> IF isNew /\ deserializedOp.type # "null"
                 THEN Append(acc.newOps, deserializedOp) ELSE acc.newOps,
      applied |-> IF isNew THEN acc.applied \cup {e.operationId} ELSE acc.applied,
      maxCreationTime |-> Max(acc.maxCreationTime, e.creationTime)]

RECURSIVE RemoteLoop(_, _)
RemoteLoop(acc, entries) ==
  IF entries = <<>> THEN acc
  ELSE RemoteLoop(RemoteStep(acc, Head(entries)), Tail(entries))

\* The query the session is subscribed to.
RemoteOpsFirstDesign(c) == getOperationsSince(log, lastCreationTime[c], c)

RemoteOps(c) ==
  getOperationsSince(IF designs.id[c] = 1 THEN log ELSE designs.table,
                     lastCreationTime[c], c)

\* The remote operations put through the local apply path: each is folded,
\* its inverse pushed on the undo stack and the operation queued.
SyncAsLocal(c) ==
  /\ alive[c]
  /\ RemoteOps(c) # <<>>
  /\ LET r == RemoteLoop([newOps |-> <<>>, applied |-> appliedOpIds[c],
                          maxCreationTime |-> lastCreationTime[c]], RemoteOps(c))
     IN /\ shapes' = [shapes EXCEPT ![c] = applyOperations(@, r.newOps)]
        /\ appliedOpIds' = [appliedOpIds EXCEPT ![c] = r.applied]
        /\ lastCreationTime' = [lastCreationTime EXCEPT ![c] = r.maxCreationTime]
        /\ NoteApplied(c, OpIds(r.newOps))
        /\ undoStack' = [undoStack EXCEPT ![c] = @ \o r.newOps]
        /\ pendingOps' = [pendingOps EXCEPT ![c] = @ \o r.newOps]
  /\ UNCHANGED <<log, flushTimeout, inflight, alive, idVars>>
  /\ UNCHANGED <<teardownOps, undone, failures, resent, lastUndo, requeued>>
  /\ UNCHANGED <<storeVars, fnVars, auxVars>>

\* Remote-operations effect: the subscription delivers the operations after
\* the cursor, excluding the session's own.
Sync(c) ==
  /\ alive[c]
  /\ RemoteOps(c) # <<>>
  /\ LET r == RemoteLoop([newOps |-> <<>>, applied |-> appliedOpIds[c],
                          maxCreationTime |-> lastCreationTime[c]], RemoteOps(c))
     IN /\ shapes' = [shapes EXCEPT ![c] = applyOperations(@, r.newOps)]
        /\ appliedOpIds' = [appliedOpIds EXCEPT ![c] = r.applied]
        /\ lastCreationTime' = [lastCreationTime EXCEPT ![c] = r.maxCreationTime]
        /\ NoteApplied(c, OpIds(r.newOps))
  /\ UNCHANGED <<log, undoStack, pendingOps, flushTimeout, inflight, alive, idVars>>
  /\ UNCHANGED <<teardownOps, undone, failures, resent, lastUndo, requeued>>
  /\ UNCHANGED <<storeVars, fnVars, auxVars>>

\* Cleanup on unmount: the timer is cleared, a non-empty queue is flushed
\* (void flushPendingOps()), and the component is gone.
Unmount(c) ==
  /\ alive[c]
  /\ alive' = [alive EXCEPT ![c] = FALSE]
  /\ flushTimeout' = [flushTimeout EXCEPT ![c] = FALSE]
  /\ teardownOps' = [teardownOps EXCEPT ![c] = OpIds(pendingOps[c])]
  /\ flushPendingOps(c)
  /\ UNCHANGED <<log, shapes, undoStack, lastCreationTime, idVars>>
  /\ UNCHANGED <<everApplied, dupApplied, undone, failures, resent, lastUndo>>
  /\ UNCHANGED <<storeVars, fnVars, auxVars>>

\* The field edits the model draws updateShapeOp's argument from.
UpdateChoices ==
  {[EmptyMap EXCEPT !.fill = "red"], [EmptyMap EXCEPT !.fill = "blue"]}

Next ==
  \/ \E c \in Clients : LocalAdd(c)
  \/ \E c \in Clients, i \in 1..MaxOps + 1, u \in UpdateChoices : LocalUpdate(c, i, u)
  \/ \E c \in Clients, i \in 1..MaxOps + 1 : LocalDelete(c, i)
  \/ \E c \in Clients : Undo(c)
  \/ \E c \in Clients : TimerFire(c)
  \/ \E c \in Clients : FlushOk(c)
  \/ \E c \in Clients : FlushFail(c)
  \/ \E c \in Clients : FlushLostAck(c)
  \/ \E c \in Clients : Sync(c)
  \/ \E c \in Clients : Unmount(c)

Spec == Init /\ [][Next]_vars

----------------------------------------------------------------------------
\* The operation algebra on enumerated inputs

\* Longest collection the algebra is tried on.
MaxLen == 2

ShapeIdPool == {1, 2, 3}

ShapePool ==
  {[NewShape(id) EXCEPT !.x = x, !.fill = fl] :
     id \in ShapeIdPool, x \in XValues, fl \in FillValues}

DistinctIds(ss) == \A i, j \in 1..Len(ss) : ss[i].id = ss[j].id => i = j

RECURSIVE SeqsUpTo(_, _)
SeqsUpTo(S, n) ==
  IF n = 0 THEN {<<>>}
  ELSE LET shorter == SeqsUpTo(S, n - 1) IN
       shorter \cup {Append(q, e) : q \in {r \in shorter : Len(r) = n - 1}, e \in S}

\* Collections as a session holds them: ids are unique.
CollectionPool == {ss \in SeqsUpTo(ShapePool, MaxLen) : DistinctIds(ss)}

UpdateMaps ==
  {[EmptyMap EXCEPT !.x = x, !.fill = fl] :
     x \in XValues \cup {Absent}, fl \in FillValues \cup {Absent}} \ {EmptyMap}

SameKeys(u, p) == \A f \in Fields : (u[f] = AbsentOf(f)) <=> (p[f] = AbsentOf(f))

FnId == [c |-> "A", n |-> 1, inv |-> FALSE]
FnInverseId == [c |-> "A", n |-> 1, inv |-> TRUE]

OpPool ==
  {createAddShapeOp(FnId, "A", s) : s \in ShapePool}
  \cup {createDeleteShapeOp(FnId, "A", s) : s \in ShapePool}
  \cup {op \in {createUpdateShapeOp(FnId, "A", id, u, pv) :
                  id \in ShapeIdPool, u \in UpdateMaps, pv \in UpdateMaps} :
          SameKeys(op.updates, op.previousValues)}

InitOps ==
  /\ log = <<>>
  /\ SessionsInit(<<>>)
  /\ StoreIdle
  /\ fnS \in CollectionPool
  /\ fnOp \in OpPool
  /\ fnR1 = <<>>
  /\ fnR2 = <<>>
  /\ fnStage = "input"
  /\ AuxIdle

\* r1 = applyOperation(S, op)
FnApply ==
  /\ fnStage = "input"
  /\ fnR1' = applyOperation(fnS, fnOp)
  /\ fnStage' = "applied"
  /\ UNCHANGED <<fnS, fnOp, fnR2>>
  /\ UNCHANGED <<log, clientVars, idVars, histVars, storeVars, auxVars>>

\* r2 = applyOperation(r1, op)
FnReapply ==
  /\ fnStage = "applied"
  /\ fnR2' = applyOperation(fnR1, fnOp)
  /\ fnStage' = "reapplied"
  /\ UNCHANGED <<fnS, fnOp, fnR1>>
  /\ UNCHANGED <<log, clientVars, idVars, histVars, storeVars, auxVars>>

\* r2 = applyOperation(r1, invertOperation(op))
FnInvert ==
  /\ fnStage = "applied"
  /\ fnR2' = applyOperation(fnR1, invertOperation(FnInverseId, "A", fnOp))
  /\ fnStage' = "inverted"
  /\ UNCHANGED <<fnS, fnOp, fnR1>>
  /\ UNCHANGED <<log, clientVars, idVars, histVars, storeVars, auxVars>>

\* r1 = the adds of fnOp's shape and of shape b in that order, r2 = in the
\* other order; b's id differs from the id of fnOp's shape.
FnAddBoth(b) ==
  /\ fnStage = "input"
  /\ fnOp.type = "addShape"
  /\ b.id # fnOp.shape.id
  /\ LET opB == createAddShapeOp(FnInverseId, "A", b) IN
       /\ fnR1' = applyOperations(fnS, <<fnOp, opB>>)
       /\ fnR2' = applyOperations(fnS, <<opB, fnOp>>)
  /\ fnStage' = "both"
  /\ UNCHANGED <<fnS, fnOp>>
  /\ UNCHANGED <<log, clientVars, idVars, histVars, storeVars, auxVars>>

NextOps == FnApply \/ FnReapply \/ FnInvert \/ \E b \in ShapePool : FnAddBoth(b)

SpecOps == InitOps /\ [][NextOps]_vars

----------------------------------------------------------------------------
\* Claims about the operation algebra (checked under SpecOps)

\* The fields of shape s named by the keys of partial map m have m's values.
AgreesOn(s, m) == \A f \in Fields : m[f] # AbsentOf(f) => s[f] = m[f]

\* op is applicable in collection ss.
Applicable(ss, op) ==
  CASE op.type = "addShape" -> ~HasShape(ss, op.shape.id)
    [] op.type = "deleteShape" -> \E i \in 1..Len(ss) : ss[i] = op.deletedShape
    [] op.type = "updateShape" ->
         \E i \in 1..Len(ss) : ss[i].id = op.shapeId /\ AgreesOn(ss[i], op.previousValues)
    [] OTHER -> FALSE

\* C4: round trip. For every collection S and every operation op applicable in
\* S, applying op and then its inverse gives back S, the order of the shapes
\* included.
C4_RoundTrip ==
  (fnStage = "inverted" /\ Applicable(fnS, fnOp)) => fnR2 = fnS

\* op aims at a shape that is gone (update, delete) or already there (add).
StaleTarget(ss, op) ==
  CASE op.type = "addShape" -> HasShape(ss, op.shape.id)
    [] op.type = "deleteShape" -> ~HasShape(ss, op.shapeId)
    [] op.type = "updateShape" -> ~HasShape(ss, op.shapeId)
    [] OTHER -> FALSE

\* C14: stale or duplicate targets are no-ops. An update or delete of a shape
\* id that is not in the collection, and an add of a shape id that is already
\* in it, return the input collection: same shapes, same order, same values.
C14_StaleTargetNoOp ==
  (fnStage = "applied" /\ StaleTarget(fnS, fnOp)) => fnR1 = fnS

C14_Witness ==
  /\ fnStage = "applied"
  /\ fnOp.type = "updateShape"
  /\ StaleTarget(fnS, fnOp)
  /\ Len(fnS) = MaxLen
  /\ fnR1 = fnS

\* C15: adds of distinct ids commute. For every collection and shapes A, B
\* with different ids, adding A then B gives the same final collection as
\* adding B then A.
C15_AddsCommute ==
  fnStage = "both" => fnR1 = fnR2

\* C5: idempotence. Applying an operation a second time to the result of
\* applying it changes nothing.
C5_Idempotent ==
  fnStage = "reapplied" => fnR2 = fnR1

\* An add that took effect has been applied a second time.
C5_Witness ==
  /\ fnStage = "reapplied"
  /\ fnOp.type = "addShape"
  /\ fnR1 # fnS
  /\ Len(fnS) > 0

----------------------------------------------------------------------------
\* The bare store: arbitrary callers of the two append mutations

StoreId(n) == [c |-> "A", n |-> n, inv |-> FALSE]

\* Operations callers send; two of them share an operation id, one is not
\* an operation of the schema.
StoreOpPool ==
  {createAddShapeOp(StoreId(1), "A", NewShape(1)),
   createDeleteShapeOp(StoreId(1), "A", NewShape(1)),
   createAddShapeOp(StoreId(2), "B", NewShape(2)),
   createUpdateShapeOp(StoreId(3), "A", 1, [EmptyMap EXCEPT !.fill = "red"],
                       [EmptyMap EXCEPT !.fill = Undef]),
   [createAddShapeOp(StoreId(4), "A", NewShape(3)) EXCEPT !.type = "batch"]}

StoreItemPool ==
  {[operationId |-> op.id, operation |-> serializeOperation(op)] : op \in StoreOpPool}

InitStore ==
  /\ log = <<>>
  /\ SessionsInit(<<>>)
  /\ StoreIdle
  /\ FnIdle
  /\ AuxIdle

\* A call of the applyOperations mutation.
StoreApplyOperations(c, items) ==
  /\ storeCalls < MaxCalls
  /\ storeCalls' = storeCalls + 1
  /\ LET r == applyOperationsMutation(log, c, items) IN
       /\ log' = r.log
       /\ rpcResult' = [ok |-> r.ok, lastCreationTime |-> r.lastCreationTime,
                        appliedCount |-> r.appliedCount]
  /\ UNCHANGED <<clientVars, idVars, histVars, fnVars, auxVars>>

\* A call of the applyOperation mutation.
StoreApplyOperation(c, item) ==
  /\ storeCalls < MaxCalls
  /\ storeCalls' = storeCalls + 1
  /\ LET r == applyOperationMutation(log, c, item) IN
       /\ log' = r.log
       /\ rpcResult' = [ok |-> r.ok, lastCreationTime |-> r.creationTime,
                        appliedCount |-> IF r.ok /\ ~r.isDuplicate THEN 1 ELSE 0]
  /\ UNCHANGED <<clientVars, idVars, histVars, fnVars, auxVars>>

NextStore ==
  \/ \E c \in Clients, items \in SeqsUpTo(StoreItemPool, 2) : StoreApplyOperations(c, items)
  \/ \E c \in Clients, item \in StoreItemPool : StoreApplyOperation(c, item)

SpecStore == InitStore /\ [][NextStore]_vars

----------------------------------------------------------------------------
\* The end-to-end scenario: A adds a rect, B deletes it, A undoes its add

InitE2E ==
  /\ log = <<>>
  /\ SessionsInit(<<>>)
  /\ StoreIdle
  /\ FnIdle
  /\ AuxIdle

NextE2E ==
  \/ (nextOp["A"] = 0 /\ nextShapeId = 0 /\ LocalAdd("A"))
  \/ (nextOp["B"] = 0 /\ LocalDelete("B", 1))
  \/ Undo("A")
  \/ \E c \in Clients : TimerFire(c)
  \/ \E c \in Clients : FlushOk(c)
  \/ \E c \in Clients : FlushFail(c)
  \/ \E c \in Clients : FlushLostAck(c)
  \/ \E c \in Clients : Sync(c)

SpecE2E == InitE2E /\ [][NextE2E]_vars

----------------------------------------------------------------------------
\* Calls of undo(), the empty stack included

\* Number of undo() calls explored.
MaxUndoCalls == 3

InitUndo ==
  /\ log = <<>>
  /\ \E init \in InitialShapesChoices : SessionsInit(init)
  /\ StoreIdle
  /\ FnIdle
  /\ AuxIdle

NoteUndoCall(c) ==
  undoCalls' = [n |-> undoCalls.n + 1, client |-> c, empty |-> undoStack[c] = <<>>]

\* undo(): returns false at once on an empty stack.
UndoCall(c) ==
  /\ alive[c]
  /\ undoCalls.n < MaxUndoCalls
  /\ NoteUndoCall(c)
  /\ IF undoStack[c] = <<>>
     THEN UNCHANGED <<log, clientVars, idVars, histVars>>
     ELSE UndoPop(c)
  /\ UNCHANGED <<storeVars, fnVars, ui, gesture, remoteOps, designs>>

NextUndo ==
  \/ \E c \in Clients : LocalAdd(c)
  \/ \E c \in Clients, i \in 1..MaxOps + 1, u \in UpdateChoices : LocalUpdate(c, i, u)
  \/ \E c \in Clients, i \in 1..MaxOps + 1 : LocalDelete(c, i)
  \/ \E c \in Clients : UndoCall(c)
  \/ \E c \in Clients : TimerFire(c)

SpecUndo == InitUndo /\ [][NextUndo]_vars

\* C11: undo() pops exactly the top inverse, applies it to the collection and
\* appends it to the queue, pushing nothing; on an empty stack it changes
\* neither the collection, the queue nor the stack.
C11_UndoPopsTop ==
  [][undoCalls'.n = undoCalls.n + 1 =>
       LET c == undoCalls'.client IN
       IF undoStack[c] = <<>>
       THEN shapes' = shapes /\ pendingOps' = pendingOps /\ undoStack' = undoStack
       ELSE LET top == undoStack[c][Len(undoStack[c])] IN
            /\ Len(undoStack'[c]) = Len(undoStack[c]) - 1
            /\ IsPrefixOf(undoStack'[c], undoStack[c])
            /\ shapes'[c] = applyOperation(shapes[c], top)
            /\ pendingOps'[c] = Append(pendingOps[c], top)
            /\ \A d \in Clients \ {c} :
                 /\ shapes'[d] = shapes[d]
                 /\ pendingOps'[d] = pendingOps[d]
                 /\ undoStack'[d] = undoStack[d]]_vars

\* A stack of two was popped by a call that changed the collection, and a
\* later call found a stack empty.
C11_Witness ==
  /\ undoCalls.empty
  /\ lastUndo.client # "none"
  /\ lastUndo.after # lastUndo.before
  /\ \E c \in Clients : Len(undoStack[c]) = 1 /\ lastUndo.client = c

----------------------------------------------------------------------------
\* Pointer gestures of one session (handlePointerDown / onShapePointerDown /
\* handlePointerMove / handlePointerUp).  Of a shape's geometry the model keeps
\* x and, for a path, its points; the marquee and lasso branches touch neither
\* the collection nor the undo stack and are left out.

Tools == {"select", "draw-rect", "draw-pencil"}

\* Pointer displacements.
Deltas == {"0", "10"}

\* x + dx
AddX(x, d) ==
  CASE d = "0" -> x
    [] x = "0" -> "10"
    [] x = "10" -> "20"
    [] OTHER -> "30"

\* translatePoints(points, dx, dy)
translatePoints(pts, d) ==
  CASE d = "0" -> pts
    [] pts = "p1" -> "p1m"
    [] pts = "p2" -> "p2m"
    [] OTHER -> "p3m"

\* [...s.points, { x, y }]
AppendPoint(pts) ==
  CASE pts = "p1" -> "p2"
    [] pts = "p2" -> "p3"
    [] OTHER -> "p4"

\* moveShape(shape, dx, dy)
moveShape(s, d) ==
  IF s.type = "path"
  THEN [s EXCEPT !.points = translatePoints(@, d)]
  ELSE [s EXCEPT !.x = AddX(@, d)]

\* A freshly drawn path: points: [{ x, y, moveTo: true }]
NewPath(id) == [NewShape(id) EXCEPT !.type = "path", !.points = "p1"]

\* shapes.find((s) => s.id === id), NoShape when there is none
FindShape(ss, id) ==
  IF HasShape(ss, id)
  THEN ss[CHOOSE i \in 1..Len(ss) : ss[i].id = id /\ \A j \in 1..i - 1 : ss[j].id # id]
  ELSE NoShape

InSeq(q, e) == \E i \in 1..Len(q) : q[i] = e

\* findNearbyPath(x, y): a path of the collection near the pointer, or none.
NearbyPaths(ss) == {NoShape} \cup {ss[i] : i \in {j \in 1..Len(ss) : ss[j].type = "path"}}

\* History: a gesture starts.
GestureStarts(c, kind) ==
  gesture' = [gesture EXCEPT ![c] =
                [phase |-> "down", kind |-> kind, stackLen |-> Len(undoStack[c]),
                 before |-> shapes[c], atUp |-> <<>>]]

\* setShapeById(id, (s) => s.type !== "path" ? s : { ...s, points: [...s.points, pt] })
ExtendPath(ss, id) ==
  [i \in 1..Len(ss) |->
     IF ss[i].id = id /\ ss[i].type = "path"
     THEN [ss[i] EXCEPT !.points = AppendPoint(ss[i].points)] ELSE ss[i]]

\* The pencil branch of both pointer-down handlers, from the refs in base:
\* continue targetPath with a new sub-path, or start a new path.
PencilDown(c, base, targetPath) ==
  IF targetPath # NoShape
  THEN /\ ui' = [ui EXCEPT ![c] = [base EXCEPT !.isPointerDown = TRUE,
                                               !.extendingPath = targetPath,
                                               !.pencilDraftId = targetPath.id]]
       /\ shapes' = [shapes EXCEPT ![c] = ExtendPath(shapes[c], targetPath.id)]
       /\ UNCHANGED nextShapeId
  ELSE /\ ui' = [ui EXCEPT ![c] = [base EXCEPT !.isPointerDown = TRUE,
                                               !.extendingPath = NoShape,
                                               !.pencilDraftId = nextShapeId + 1,
                                               !.createdShapeId = nextShapeId + 1]]
       /\ shapes' = [shapes EXCEPT ![c] = Append(@, NewPath(nextShapeId + 1))]
       /\ nextShapeId' = nextShapeId + 1

GestureFrame ==
  /\ UNCHANGED <<log, undoStack, pendingOps, flushTimeout, lastCreationTime,
                 appliedOpIds, inflight, alive, nextOp>>
  /\ UNCHANGED <<histVars, storeVars, fnVars, undoCalls, remoteOps, designs>>

\* onShapePointerDown(e, shape, mode) on the i-th shape.
onShapePointerDown(c, i, mode, near) ==
  /\ alive[c] /\ ~ui[c].isPointerDown /\ gesture[c].phase = "idle"
  /\ i \in 1..Len(shapes[c])
  /\ LET shape == shapes[c][i] IN
     IF ui[c].tool = "draw-pencil"
     THEN /\ PencilDown(c, ui[c], IF shape.type = "path" THEN shape ELSE near)
          /\ GestureStarts(c, "stroke")
     ELSE LET currentSelection ==
                IF InSeq(ui[c].selectedIds, shape.id)
                THEN ui[c].selectedIds ELSE <<shape.id>>
              originals ==
                SelectSeq([k \in 1..Len(currentSelection) |->
                             FindShape(shapes[c], currentSelection[k])],
                          LAMBDA s : s # NoShape)
          IN /\ ui' = [ui EXCEPT
                  ![c].isPointerDown = TRUE,
                  ![c].selectedIds = currentSelection,
                  ![c].interactionOriginal = shape,
                  ![c].groupDrag =
                     IF mode = "move" /\ ui[c].tool = "select"
                     THEN [active |-> TRUE, originals |-> originals] ELSE @,
                  ![c].activeHandle =
                     IF mode = "resize" THEN TRUE ELSE @]
             /\ GestureStarts(c, IF mode = "move" THEN "drag" ELSE "resize")
             /\ UNCHANGED <<shapes, nextShapeId>>
  /\ GestureFrame

\* handlePointerDown(e) on the canvas background.
handlePointerDown(c, near) ==
  /\ alive[c] /\ ~ui[c].isPointerDown /\ gesture[c].phase = "idle"
  /\ CASE ui[c].tool = "draw-rect" ->
            /\ shapes' = [shapes EXCEPT ![c] = Append(@, NewShape(nextShapeId + 1))]
            /\ nextShapeId' = nextShapeId + 1
            /\ ui' = [ui EXCEPT ![c].isPointerDown = TRUE,
                                ![c].interactionOriginal = NoShape,
                                ![c].draftId = nextShapeId + 1,
                                ![c].draftSized = FALSE,
                                ![c].selectedIds = <<nextShapeId + 1>>,
                                ![c].createdShapeId = nextShapeId + 1]
            /\ GestureStarts(c, "draw")
       [] ui[c].tool = "draw-pencil" ->
            /\ PencilDown(c, [ui[c] EXCEPT !.interactionOriginal = NoShape,
                                           !.createdShapeId = 0], near)
            /\ GestureStarts(c, "stroke")
       [] OTHER ->
            /\ ui' = [ui EXCEPT ![c].isPointerDown = TRUE,
                                ![c].interactionOriginal = NoShape,
                                ![c].createdShapeId = 0,
                                ![c].selectedIds = <<>>]
            /\ GestureStarts(c, "marquee")
            /\ UNCHANGED <<shapes, nextShapeId>>
  /\ GestureFrame

\* handlePointerMove(e): the pointer is d away from where it went down; far
\* says whether it is minPointDistance away from the stroke's last point.
handlePointerMove(c, d, far) ==
  /\ alive[c] /\ ui[c].isPointerDown /\ gesture[c].phase = "down"
  /\ CASE ui[c].pencilDraftId # 0 ->
            /\ shapes' = [shapes EXCEPT ![c] =
                 IF far THEN ExtendPath(shapes[c], ui[c].pencilDraftId) ELSE @]
            /\ UNCHANGED ui
       [] ui[c].groupDrag.active /\ ui[c].tool = "select"
          /\ Len(ui[c].selectedIds) >= 1 ->
            /\ shapes' = [shapes EXCEPT ![c] =
                 [i \in 1..Len(shapes[c]) |->
                    LET s == shapes[c][i]
                        original == FindShape(ui[c].groupDrag.originals, s.id)
                    IN IF ~InSeq(ui[c].selectedIds, s.id) \/ original = NoShape
                       THEN s ELSE moveShape(original, d)]]
            /\ UNCHANGED ui
       [] ui[c].draftId # 0 ->
            /\ ui' = [ui EXCEPT ![c].draftSized = (d # "0")]
            /\ UNCHANGED shapes
       [] ui[c].tool = "select" /\ ui[c].activeHandle
          /\ ui[c].interactionOriginal # NoShape ->
            /\ shapes' = [shapes EXCEPT ![c] =
                 [i \in 1..Len(shapes[c]) |->
                    IF shapes[c][i].id = ui[c].interactionOriginal.id
                    THEN moveShape(ui[c].interactionOriginal, d) ELSE shapes[c][i]]]
            /\ UNCHANGED ui
       [] OTHER -> UNCHANGED <<shapes, ui>>
  /\ UNCHANGED <<nextShapeId, gesture>>
  /\ GestureFrame

\* An operation made by handlePointerUp goes onto the undo stack (inverted)
\* and into the queue; it is not applied: the collection already shows it.
PushOp(acc, c, op) ==
  [acc EXCEPT !.undo = Append(@, invertOperation([c |-> c, n |-> acc.n + 1, inv |-> TRUE],
                                                 c, op)),
              !.pending = Append(@, op),
              !.n = @ + 1,
              !.pushed = TRUE]

\* getShapeChanges(original, current), and an update operation when they differ.
CommitChanges(acc, c, original, current) ==
  LET ch == getShapeChanges(original, current) IN
  IF ch.updates = EmptyMap THEN acc
  ELSE PushOp(acc, c,
              createUpdateShapeOp([c |-> c, n |-> acc.n + 1, inv |-> FALSE], c,
                                  original.id, ch.updates, ch.previousValues))

\* for (const [id, originalShape] of Object.entries(originals))
RECURSIVE GroupDragCommit(_, _, _, _)
GroupDragCommit(acc, c, ss, originals) ==
  IF originals = <<>> THEN acc
  ELSE LET currentShape == FindShape(ss, Head(originals).id) IN
       GroupDragCommit(IF currentShape # NoShape
                       THEN CommitChanges(acc, c, Head(originals), currentShape)
                       ELSE acc,
                       c, ss, Tail(originals))

\* "Commit group drag as operations"
UpGroupDrag(acc, c) ==
  IF ui[c].groupDrag.active
  THEN [GroupDragCommit(acc, c, shapes[c], ui[c].groupDrag.originals)
          EXCEPT !.sched = TRUE]
  ELSE acc

\* "Commit pencil path as operation"
UpPencil(acc, c) ==
  LET draft == FindShape(shapes[c], ui[c].pencilDraftId)
      clean == [acc EXCEPT !.pushed = FALSE]
  IN IF ui[c].pencilDraftId = 0 \/ draft = NoShape \/ draft.type # "path" THEN acc
     ELSE IF ui[c].extendingPath # NoShape
     THEN LET r == CommitChanges(clean, c, ui[c].extendingPath, draft) IN
          [r EXCEPT !.sched = @ \/ r.pushed]
     ELSE IF draft.points # Undef
     THEN [PushOp(acc, c, createAddShapeOp([c |-> c, n |-> acc.n + 1, inv |-> FALSE],
                                           c, draft))
             EXCEPT !.sched = TRUE]
     ELSE [acc EXCEPT !.shapes = SelectSeq(@, LAMBDA s : s.id # ui[c].pencilDraftId)]

\* "Commit draft shape as operation"
UpDraft(acc, c) ==
  LET draft == FindShape(shapes[c], ui[c].draftId) IN
  IF ui[c].draftId = 0 \/ draft = NoShape THEN acc
  ELSE IF ~ui[c].draftSized
  THEN [acc EXCEPT !.shapes = SelectSeq(@, LAMBDA s : s.id # ui[c].draftId)]
  ELSE [PushOp(acc, c, createAddShapeOp([c |-> c, n |-> acc.n + 1, inv |-> FALSE],
                                        c, draft))
          EXCEPT !.sched = TRUE]

\* "Commit resize as operation": runs whenever interactionOriginalRef is set
\* and no draft is being drawn.
UpResize(acc, c) ==
  LET original == ui[c].interactionOriginal
      current == FindShape(shapes[c], original.id)
      clean == [acc EXCEPT !.pushed = FALSE]
  IN IF ui[c].draftId # 0 \/ original = NoShape \/ current = NoShape THEN acc
     ELSE LET r == CommitChanges(clean, c, original, current) IN
          [r EXCEPT !.sched = @ \/ r.pushed]

\* handlePointerUp()
handlePointerUp(c) ==
  /\ alive[c] /\ ui[c].isPointerDown /\ gesture[c].phase = "down"
  /\ LET acc == [shapes |-> shapes[c], undo |-> undoStack[c],
                 pending |-> pendingOps[c], n |-> nextOp[c],
                 sched |-> flushTimeout[c], pushed |-> FALSE]
         r == UpResize(UpDraft(UpPencil(UpGroupDrag(acc, c), c), c), c)
     IN /\ shapes' = [shapes EXCEPT ![c] = r.shapes]
        /\ undoStack' = [undoStack EXCEPT ![c] = r.undo]
        /\ pendingOps' = [pendingOps EXCEPT ![c] = r.pending]
        /\ nextOp' = [nextOp EXCEPT ![c] = r.n]
        /\ flushTimeout' = [flushTimeout EXCEPT ![c] = r.sched]
        /\ gesture' = [gesture EXCEPT ![c].phase = "done", ![c].atUp = r.shapes]
  /\ ui' = [ui EXCEPT ![c] =
              [UiIdle EXCEPT !.selectedIds = ui[c].selectedIds,
                             !.tool = IF ui[c].draftId # 0 THEN "select"
                                      ELSE ui[c].tool]]
  /\ UNCHANGED <<log, lastCreationTime, appliedOpIds, inflight, alive, nextShapeId>>
  /\ UNCHANGED <<histVars, storeVars, fnVars, undoCalls, remoteOps, designs>>

\* Seeds of the gesture runs: two rects, or a rect and a path.
InitGesture ==
  /\ log = <<>>
  /\ \E init \in {<<NewShape(1), NewShape(2)>>, <<NewShape(1), NewPath(2)>>} :
       SessionsInit(init)
  /\ StoreIdle
  /\ FnIdle
  /\ undoCalls = NoUndoCall
  /\ remoteOps = [c \in Clients |-> <<>>]
  /\ designs = OneDesign
  /\ gesture = [c \in Clients |-> NoGesture]
  /\ \E tool \in Tools, sel \in {<<>>, <<1>>, <<1, 2>>} :
       ui = [c \in Clients |-> [UiIdle EXCEPT !.tool = tool, !.selectedIds = sel]]

NextGesture ==
  \/ \E c \in Clients, i \in 1..2, mode \in {"move", "resize"} :
       \E near \in NearbyPaths(shapes[c]) : onShapePointerDown(c, i, mode, near)
  \/ \E c \in Clients : \E near \in NearbyPaths(shapes[c]) : handlePointerDown(c, near)
  \/ \E c \in Clients, d \in Deltas, far \in BOOLEAN : handlePointerMove(c, d, far)
  \/ \E c \in Clients : handlePointerUp(c)
  \/ \E c \in Clients : Undo(c)
  \/ \E c \in Clients : TimerFire(c)

SpecGesture == InitGesture /\ [][NextGesture]_vars

\* C13: one gesture, one undo entry. A completed drag or freehand stroke that
\* changed the collection has added exactly one entry to the undo stack, and
\* the single undo() after it gives back the collection of pointer-down.
C13_OneGestureOneUndo ==
  \A c \in Clients :
    (/\ gesture[c].phase = "done"
     /\ gesture[c].kind \in {"drag", "stroke"}
     /\ gesture[c].atUp # gesture[c].before)
    => /\ undone = 0 => Len(undoStack[c]) = gesture[c].stackLen + 1
       /\ (undone = 1 /\ lastUndo.client = c /\ lastUndo.before = gesture[c].atUp)
          => shapes[c] = gesture[c].before

----------------------------------------------------------------------------
\* Incoming sync with the delivery of the subscription and the run of the
\* effect apart: the effect runs again, on the result it already saw, when
\* only the cursor changed.

\* Rows of a writer other than the sessions, stored before the sessions
\* mounted: a well-formed add and two rows the schema rejects.
LegacyOps ==
  {createAddShapeOp([c |-> "X", n |-> 1, inv |-> FALSE], "X", NewShape(9)),
   createAddShapeOp([c |-> "X", n |-> 2, inv |-> FALSE], "X", NewShape(0)),
   [createAddShapeOp([c |-> "X", n |-> 3, inv |-> FALSE], "X", NewShape(8))
      EXCEPT !.type = "moveShape"]}

RECURSIVE StoreRows(_, _)
StoreRows(lg, ops) ==
  IF ops = <<>> THEN lg
  ELSE StoreRows(InsertEntry(lg, "X", [operationId |-> Head(ops).id,
                                       operation |-> serializeOperation(Head(ops))]),
                 Tail(ops))

InitSync ==
  /\ \E ops \in {q \in SeqsUpTo(LegacyOps, MaxLen) :
                   \A i, j \in 1..Len(q) : q[i] = q[j] => i = j} :
       log = StoreRows(<<>>, ops)
  /\ SessionsInit(<<>>)
  /\ StoreIdle
  /\ FnIdle
  /\ AuxIdle

\* useQuery(getOperationsSince, {sinceCreationTime: lastCreationTime,
\* excludeClientId: clientId}) delivers a new result.
Deliver(c) ==
  /\ alive[c]
  /\ remoteOps[c] # RemoteOps(c)
  /\ remoteOps' = [remoteOps EXCEPT ![c] = RemoteOps(c)]
  /\ UNCHANGED <<log, clientVars, idVars, histVars, storeVars, fnVars, undoCalls,
                 ui, gesture, designs>>

\* Remote-operations effect on the delivered result and the current cursor.
RemoteEffect(c) ==
  /\ alive[c]
  /\ remoteOps[c] # <<>>
  /\ LET r == RemoteLoop([newOps |-> <<>>, applied |-> appliedOpIds[c],
                          maxCreationTime |-> lastCreationTime[c]], remoteOps[c])
     IN /\ shapes' = [shapes EXCEPT ![c] = applyOperations(@, r.newOps)]
        /\ appliedOpIds' = [appliedOpIds EXCEPT ![c] = r.applied]
        /\ lastCreationTime' = [lastCreationTime EXCEPT ![c] = r.maxCreationTime]
        /\ NoteApplied(c, OpIds(r.newOps))
  /\ UNCHANGED <<log, undoStack, pendingOps, flushTimeout, inflight, alive, idVars>>
  /\ UNCHANGED <<teardownOps, undone, failures, resent, lastUndo, requeued>>
  /\ UNCHANGED <<storeVars, fnVars, auxVars>>

NextSync ==
  \/ \E c \in Clients : LocalAdd(c)
  \/ \E c \in Clients : TimerFire(c)
  \/ \E c \in Clients : FlushOk(c)
  \/ \E c \in Clients : Deliver(c)
  \/ \E c \in Clients : RemoteEffect(c)

SpecSync == InitSync /\ [][NextSync]_vars

\* The entries of a delivered result the schema rejects.
Malformed(entries) ==
  {i \in 1..Len(entries) : ~SchemaOk(entries[i].operation)}

\* C16: within a session the cursor never decreases, whatever the interleaving
\* of flush successes and incoming syncs, and after an incoming sync it is at
\* least the position of every returned entry, the entries skipped as
\* duplicates or as malformed included.
C16_CursorNeverRegresses ==
  [][\A c \in Clients :
       /\ lastCreationTime'[c] >= lastCreationTime[c]
       /\ RemoteEffect(c) =>
            \A i \in 1..Len(remoteOps[c]) :
              lastCreationTime'[c] >= remoteOps[c][i].creationTime]_vars

\* A session that flushed an operation of its own has consumed a result whose
\* entries were all skipped as malformed, and its cursor covers them.
C16_Witness ==
  \E c \in Clients :
    /\ remoteOps[c] # <<>>
    /\ Malformed(remoteOps[c]) = 1..Len(remoteOps[c])
    /\ \A i \in 1..Len(remoteOps[c]) :
         /\ remoteOps[c][i].operationId \in appliedOpIds[c]
         /\ lastCreationTime[c] >= remoteOps[c][i].creationTime
    /\ \E i \in 1..Len(log) : log[i].clientId = c

----------------------------------------------------------------------------
\* Shapes of every kind of the data model, drawn in one session and
\* replicated to the other.

\* A well-formed shape of the kind: a text carries a shadow, a path its points.
ShapeOfKind(id, kind) ==
  [NewShape(id) EXCEPT !.type = kind,
                       !.shadow = IF kind = "text" THEN "soft" ELSE Undef,
                       !.points = IF kind = "path" THEN "p1" ELSE Undef]

\* addShapeOp(shape) with a shape of the kind.
LocalAddKind(c, kind) ==
  /\ CanEdit(c)
  /\ LET op == createAddShapeOp(FreshId(c), c, ShapeOfKind(nextShapeId + 1, kind)) IN
       LocalApply(c, op, invertOperation(FreshInverseId(c), c, op))
  /\ nextShapeId' = nextShapeId + 1

\* applyCommandGroup, tool replaceShape, on the i-th shape with a shape of
\* the kind and the same id: updateShapeOp(cmd.shape.id, existingShape, cmd.shape).
replaceShape(c, i, kind) ==
  /\ i \in 1..Len(shapes[c])
  /\ LocalUpdate(c, i, ShapeOfKind(shapes[c][i].id, kind))

\* catch branch of flushPendingOps, whatever the mutation threw.
FlushCatch(c) ==
  /\ pendingOps' = [pendingOps EXCEPT ![c] = Requeue(Head(inflight[c]), @)]
  /\ NoteRequeue(c)
  /\ inflight' = [inflight EXCEPT ![c] = Tail(@)]
  /\ UNCHANGED <<log, shapes, undoStack, flushTimeout, lastCreationTime,
                 appliedOpIds, alive, idVars>>
  /\ UNCHANGED <<everApplied, dupApplied, teardownOps, undone, failures, resent,
                 lastUndo>>
  /\ UNCHANGED <<storeVars, fnVars, auxVars>>

\* The awaited append rejects because validateOperation threw in the store.
FlushRejected(c) ==
  /\ inflight[c] # <<>>
  /\ ~applyOperationsMutation(log, c, WireItems(Head(inflight[c]))).ok
  /\ FlushCatch(c)

InitKinds ==
  /\ log = <<>>
  /\ SessionsInit(<<>>)
  /\ StoreIdle
  /\ FnIdle
  /\ AuxIdle

NextKinds ==
  \/ \E c \in Clients, kind \in ShapeKinds : LocalAddKind(c, kind)
  \/ \E c \in Clients, i \in 1..MaxOps, kind \in ShapeKinds : replaceShape(c, i, kind)
  \/ \E c \in Clients : TimerFire(c)
  \/ \E c \in Clients : FlushOk(c)
  \/ \E c \in Clients : FlushRejected(c)
  \/ \E c \in Clients : Sync(c)

SpecKinds == InitKinds /\ [][NextKinds]_vars

\* The operations session c has queued or sent and not yet seen stored.
Unstored(c) ==
  {pendingOps[c][i] : i \in 1..Len(pendingOps[c])}
  \cup UNION {{inflight[c][k][i] : i \in 1..Len(inflight[c][k])} :
                k \in 1..Len(inflight[c])}

\* C18: every shape kind is replicable. An add of a well-formed shape of any
\* of the seven kinds passes the store's validation on append and the
\* receiver's deserialization, and the shape appears in every other session
\* with all its attributes, a text's shadow and a path's points included.
C18_EveryKindReplicates ==
  \A c \in Clients :
    /\ \A op \in Unstored(c) : validateOperation(serializeOperation(op))
    /\ \A i \in 1..Len(log) :
         /\ safeDeserializeOperation(log[i].operation).type # "null"
         /\ (log[i].clientId # c /\ log[i].operationId \in appliedOpIds[c]) =>
              FindShape(shapes[c], log[i].operation.shape.id) = log[i].operation.shape

\* The adds the sessions have issued: each is queued, in flight or stored.
IssuedAdds ==
  {op \in UNION {Unstored(c) : c \in Clients}
          \cup {log[i].operation : i \in 1..Len(log)} : op.type = "addShape"}

\* C19: data-model invariant. After any sequence of schema-valid operations,
\* applied locally or remotely, no two shapes of a session's collection have
\* the same id, and every shape has the id and the type it was added with:
\* an update cannot change them.
C19_IdUniqueTypeStable ==
  \A c \in Clients :
    /\ DistinctIds(shapes[c])
    /\ \A i \in 1..Len(shapes[c]) :
         /\ \E op \in IssuedAdds : op.shape.id = shapes[c][i].id
         /\ \A op \in IssuedAdds :
              op.shape.id = shapes[c][i].id => op.shape.type = shapes[c][i].type

----------------------------------------------------------------------------
\* Flushes that fail, with the timers firing and the store answering in the
\* end: a timer that is armed fires, an awaited append settles.  Nothing
\* makes the user edit again.

NextRetry ==
  \/ \E c \in Clients : LocalAdd(c)
  \/ \E c \in Clients, i \in 1..MaxOps + 1 : LocalDelete(c, i)
  \/ \E c \in Clients : TimerFire(c)
  \/ \E c \in Clients : FlushOk(c)
  \/ \E c \in Clients : FlushFail(c)

SpecRetry ==
  /\ Init
  /\ [][NextRetry]_vars
  /\ \A c \in Clients : WF_vars(TimerFire(c)) /\ WF_vars(FlushOk(c))

\* C24: background retry. The operations a failed flush put back in the queue
\* are sent again without a further edit of the user and, the store being
\* reachable in the end, are eventually stored in the log.
C24_BackgroundRetry ==
  \A c \in Clients, n \in 1..MaxOps :
    ([c |-> c, n |-> n, inv |-> FALSE] \in OpIds(requeued[c].batch))
      ~> Stored([c |-> c, n |-> n, inv |-> FALSE])

\* The caller of the append is nobody, the owner of the document's project
\* or somebody else.
Identities == {"none", "owner", "other"}

\* applyOperations handler, before its loop: throws unless the caller is
\* authenticated and project.userId === identity.subject.
Authorized(identity) == identity # "none" /\ identity = "owner"

\* The awaited append settles for a caller with this identity: it is stored,
\* or the handler throws and the catch branch puts the batch back.
FlushAs(c, identity) ==
  /\ inflight[c] # <<>>
  /\ IF Authorized(identity) THEN FlushOk(c) ELSE FlushCatch(c)

NextAuth ==
  \/ \E c \in Clients : LocalAdd(c)
  \/ \E c \in Clients : TimerFire(c)
  \/ \E c \in Clients, identity \in Identities : FlushAs(c, identity)

SpecAuth == Init /\ [][NextAuth]_vars

\* C26: authorization failures are not retried. The batch of an append that
\* failed because the caller is not authenticated or does not own the
\* document's project is not sent again by a later flush.
C26_AuthFailureNotRetried ==
  [][\A c \in Clients :
       Len(inflight'[c]) > Len(inflight[c]) =>
         OpIds(requeued[c].batch) \cap OpIds(inflight'[c][Len(inflight'[c])]) = {}]_vars

\* Drawing, flushing and rejection with the timers firing and the store
\* answering: a timer that is armed fires, an awaited append settles.
SpecReject ==
  /\ InitKinds
  /\ [][NextKinds]_vars
  /\ \A c \in Clients :
       WF_vars(TimerFire(c)) /\ WF_vars(FlushOk(c)) /\ WF_vars(FlushRejected(c))

\* The operations of the batch c's last flush had rejected that fail the
\* store's validation.
RejectedOps(c) ==
  {op \in {requeued[c].batch[i] : i \in 1..Len(requeued[c].batch)} :
     ~validateOperation(serializeOperation(op))}

\* C25: a rejected operation is not retried indefinitely. When the store
\* rejects a batch because one of its operations fails schema validation,
\* the next flush does not send that operation again, and the valid
\* operations queued with it or after it are eventually stored in the log.
C25_RejectedNotRetried ==
  /\ [][\A c \in Clients :
          Len(inflight'[c]) > Len(inflight[c]) =>
            \A op \in RejectedOps(c) :
              op.id \notin OpIds(inflight'[c][Len(inflight'[c])])]_vars
  /\ \A c \in Clients, n \in 1..MaxOps :
       (\E op \in Unstored(c) : /\ op.id = [c |-> c, n |-> n, inv |-> FALSE]
                                /\ validateOperation(serializeOperation(op)))
         ~> Stored([c |-> c, n |-> n, inv |-> FALSE])

\* C23: local apply step. Right after a session originates an operation op,
\* before any flush, op's effect is in its collection, invert(op) is the top
\* of its undo stack, op is the last element of its pending queue and op's
\* id is in its applied-id set.
C23_LocalApplyStep ==
  [][\A c \in Clients :
       nextOp'[c] = nextOp[c] + 1 =>
         LET op == pendingOps'[c][Len(pendingOps'[c])] IN
         /\ Len(pendingOps'[c]) = Len(pendingOps[c]) + 1
         /\ op.id = FreshId(c)
         /\ shapes'[c] = applyOperation(shapes[c], op)
         /\ undoStack'[c] # <<>>
         /\ undoStack'[c][Len(undoStack'[c])] = invertOperation(FreshInverseId(c), c, op)
         /\ op.id \in appliedOpIds'[c]]_vars

\* The operations of a delivered result that are well formed and not yet
\* consumed by the session, in the order of the result.
ValidNewOps(entries, applied) ==
  LET kept == SelectSeq(entries, LAMBDA e : /\ SchemaOk(e.operation)
                                            /\ e.operationId \notin applied)
  IN [i \in 1..Len(kept) |-> SchemaData(kept[i].operation)]

\* C17: a malformed remote operation is skipped without stopping the fold.
\* When a delivered result holds an entry the schema rejects, the effect
\* changes the collection by the valid entries only, all of them, in order;
\* the malformed entry's id joins the applied-id set and the cursor moves
\* past it.
C17_MalformedSkipped ==
  [][\A c \in Clients :
       (RemoteEffect(c) /\ Malformed(remoteOps[c]) # {}) =>
         /\ shapes'[c] =
              applyOperations(shapes[c], ValidNewOps(remoteOps[c], appliedOpIds[c]))
         /\ \A i \in Malformed(remoteOps[c]) :
              /\ remoteOps[c][i].operationId \in appliedOpIds'[c]
              /\ lastCreationTime'[c] >= remoteOps[c][i].creationTime]_vars

\* A session consumed a result whose first entry is malformed and whose
\* second is a well-formed add: it holds the added shape only.
C17_Witness ==
  \E c \in Clients :
    /\ Len(remoteOps[c]) = 2
    /\ Malformed(remoteOps[c]) = {1}
    /\ \A i \in 1..2 : remoteOps[c][i].operationId \in appliedOpIds[c]
    /\ lastCreationTime[c] >= remoteOps[c][2].creationTime
    /\ HasShape(shapes[c], remoteOps[c][2].operation.shape.id)
    /\ ~HasShape(shapes[c], remoteOps[c][1].operation.shape.id)

----------------------------------------------------------------------------
\* A mounted canvas is handed another design (design.id changes)

\* design.initialShapes of the second design.
SecondInitialShapes == <<NewShape(9)>>

\* The rows of the design a session shows.
TableOf(c) == IF designs.id[c] = 1 THEN log ELSE designs.table

\* The effect cleanup with the timer cleared and the queue left alone.
cleanupTimerOnly(c) ==
  [inflight |-> inflight[c], pendingOps |-> pendingOps[c],
   appliedOpIds |-> appliedOpIds[c]]

\* Cleanup of the [flushPendingOps] effect, run with the callback of the
\* design being left: a non-empty queue is flushed (void flushPendingOps()).
cleanupFlush(c) ==
  IF pendingOps[c] = <<>>
  THEN [inflight |-> inflight[c], pendingOps |-> pendingOps[c],
        appliedOpIds |-> appliedOpIds[c]]
  ELSE [inflight |-> Append(inflight[c], pendingOps[c]), pendingOps |-> <<>>,
        appliedOpIds |-> appliedOpIds[c] \cup OpIds(pendingOps[c])]

RECURSIVE BatchIds(_)
BatchIds(batches) ==
  IF batches = <<>> THEN {} ELSE OpIds(Head(batches)) \cup BatchIds(Tail(batches))

\* design.id changes under a mounted canvas.  The commit runs the effect
\* cleanups first (the timer is cleared and the queue flushed to the design
\* being left), then the initialize effect: shapes, undo stack and cursor
\* are reset and appliedOpIdsRef is cleared.  The subscription has new
\* arguments, so it holds no result until the store answers.
SwitchDesign(c) ==
  /\ alive[c]
  /\ designs.id[c] = 1
  /\ LET q == cleanupFlush(c) IN
       /\ inflight' = [inflight EXCEPT ![c] = q.inflight]
       /\ pendingOps' = [pendingOps EXCEPT ![c] = q.pendingOps]
       /\ appliedOpIds' = [appliedOpIds EXCEPT ![c] = {}]
       /\ designs' = [designs EXCEPT !.id[c] = 2, !.late[c] = Len(q.inflight),
                                     !.left[c] = BatchIds(q.inflight)]
  /\ flushTimeout' = [flushTimeout EXCEPT ![c] = FALSE]
  /\ shapes' = [shapes EXCEPT ![c] = SecondInitialShapes]
  /\ undoStack' = [undoStack EXCEPT ![c] = <<>>]
  /\ lastCreationTime' = [lastCreationTime EXCEPT ![c] = 0]
  /\ remoteOps' = [remoteOps EXCEPT ![c] = <<>>]
  /\ UNCHANGED <<log, alive, idVars, histVars>>
  /\ UNCHANGED <<storeVars, fnVars, undoCalls, ui, gesture>>

\* The design the oldest append in flight was called for.
HeadDesign(c) == IF designs.id[c] = 1 \/ designs.late[c] > 0 THEN 1 ELSE 2

Settled(c) ==
  /\ inflight' = [inflight EXCEPT ![c] = Tail(@)]
  /\ UNCHANGED <<shapes, undoStack, flushTimeout, appliedOpIds, alive, idVars>>
  /\ UNCHANGED <<everApplied, dupApplied, teardownOps, undone, resent, lastUndo>>
  /\ UNCHANGED <<storeVars, fnVars, undoCalls, ui, gesture, remoteOps>>

\* The awaited append resolves, whichever design the canvas shows by then:
\* the rows are in the table of the design the call named, and the cursor
\* state takes Math.max(prev, result.lastCreationTime).
SwitchFlushOk(c) ==
  /\ inflight[c] # <<>>
  /\ LET d == HeadDesign(c)
         r == applyOperationsMutation(IF d = 1 THEN log ELSE designs.table, c,
                                      WireItems(Head(inflight[c])))
     IN /\ r.ok
        /\ log' = IF d = 1 THEN r.log ELSE log
        /\ designs' = [designs EXCEPT !.table = IF d = 1 THEN @ ELSE r.log,
                                      !.late[c] = IF @ > 0 THEN @ - 1 ELSE 0]
        /\ lastCreationTime' =
             [lastCreationTime EXCEPT ![c] = Max(@, r.lastCreationTime)]
  /\ UNCHANGED <<pendingOps, failures, requeued>>
  /\ Settled(c)

\* The awaited append rejects: the catch branch puts the batch back in front
\* of pendingOpsRef, whichever design the canvas shows by then.
SwitchFlushFail(c) ==
  /\ inflight[c] # <<>>
  /\ failures < MaxFail
  /\ failures' = failures + 1
  /\ pendingOps' = [pendingOps EXCEPT ![c] = Requeue(Head(inflight[c]), @)]
  /\ NoteRequeue(c)
  /\ designs' = [designs EXCEPT !.late[c] = IF @ > 0 THEN @ - 1 ELSE 0]
  /\ UNCHANGED <<log, lastCreationTime>>
  /\ Settled(c)

NextSwitch ==
  \/ \E c \in Clients : LocalAdd(c)
  \/ \E c \in Clients : TimerFire(c)
  \/ \E c \in Clients : SwitchDesign(c)
  \/ \E c \in Clients : SwitchFlushOk(c)
  \/ \E c \in Clients : SwitchFlushFail(c)
  \/ \E c \in Clients : Deliver(c)
  \/ \E c \in Clients : RemoteEffect(c)

SpecSwitch == Init /\ [][NextSwitch]_vars

\* The operations a session had originated before a step.
OriginatedBy(c) == {[c |-> c, n |-> n, inv |-> b] : n \in 1..nextOp[c], b \in BOOLEAN}

\* The operations a session has originated: the ones it folded into its own
\* collection under its own client id.
Originated(c) == {id \in everApplied[c] : id.c = c}

\* The places that hold an operation of session c.
PlacesOf(c, id) ==
  (IF id \in OpIds(pendingOps[c]) THEN {"queue"} ELSE {})
  \cup (IF id \in BatchIds(inflight[c]) THEN {"in flight"} ELSE {})
  \cup (IF Stored(id) THEN {"log"} ELSE {})

C33_SessionOrderInLog ==
  \A i, j \in 1..Len(log) :
    (i < j /\ log[i].clientId = log[j].clientId) =>
      /\ (~log[i].operationId.inv /\ ~log[j].operationId.inv)
           => log[i].operationId.n < log[j].operationId.n
      /\ (log[i].operationId.inv /\ ~log[j].operationId.inv)
           => log[i].operationId.n # log[j].operationId.n

\* applyCommandGroup on editShape commands (the synchronous loop): every
\* command looks its shape up in the shapes of the render the callback was
\* made in, and hands it to updateShapeOp as currentShape.
RECURSIVE GroupOps(_, _, _, _)
GroupOps(c, snapshot, commands, acc) ==
  IF commands = <<>> THEN acc
  ELSE LET cmd == Head(commands)
           shape == FindShape(snapshot, cmd.id)
           ch == getShapeChanges(shape, MergeShape(shape, cmd.updates))
           op == createUpdateShapeOp([c |-> c, n |-> nextOp[c] + Len(acc) + 1,
                                      inv |-> FALSE],
                                     c, cmd.id, ch.updates, ch.previousValues)
       IN GroupOps(c, snapshot, Tail(commands),
                   IF ~HasShape(snapshot, cmd.id) \/ ch.updates = EmptyMap
                   THEN acc ELSE Append(acc, op))

\* The inverses pushed for the operations of one handler run.
GroupInverses(c, ops) ==
  [k \in 1..Len(ops) |->
     invertOperation([c |-> c, n |-> ops[k].id.n, inv |-> TRUE], c, ops[k])]

applyCommandGroup(c, commands) ==
  /\ alive[c]
  /\ SumOver(nextOp, Clients) + Len(commands) <= MaxOps
  /\ LET ops == GroupOps(c, shapes[c], commands, <<>>) IN
       /\ ops # <<>>
       /\ shapes' = [shapes EXCEPT ![c] = applyOperations(@, ops)]
       /\ undoStack' = [undoStack EXCEPT ![c] = @ \o GroupInverses(c, ops)]
       /\ pendingOps' = [pendingOps EXCEPT ![c] = @ \o ops]
       /\ nextOp' = [nextOp EXCEPT ![c] = @ + Len(ops)]
       /\ NoteApplied(c, OpIds(ops))
  /\ flushTimeout' = [flushTimeout EXCEPT ![c] = TRUE]
  /\ UNCHANGED <<log, lastCreationTime, appliedOpIds, inflight, alive, nextShapeId>>
  /\ UNCHANGED <<teardownOps, undone, failures, resent, lastUndo, requeued>>
  /\ UNCHANGED <<storeVars, fnVars, auxVars>>

NextCommands ==
  \/ \E c \in Clients :
       \E commands \in SeqsUpTo({[tool |-> "editShape", id |-> id, updates |-> u] :
                                   id \in 1..2, u \in UpdateChoices}, 2) :
         applyCommandGroup(c, commands)
  \/ \E c \in Clients : TimerFire(c)
  \/ \E c \in Clients : FlushOk(c)
  \/ \E c \in Clients : Sync(c)

SpecCommands == Init /\ [][NextCommands]_vars

\* The operations a step added to the queue of c.
Enqueued(c) ==
  IF Len(pendingOps'[c]) > Len(pendingOps[c])
       /\ SubSeq(pendingOps'[c], 1, Len(pendingOps[c])) = pendingOps[c]
  THEN SubSeq(pendingOps'[c], Len(pendingOps[c]) + 1, Len(pendingOps'[c]))
  ELSE <<>>

\* C34: when a locally originated update is enqueued, its previousValues are
\* the values its target had in the session's collection just before the
\* update took effect, also when commands of one group edit the same shape.
C34_PreviousValuesLive ==
  [][\A c \in Clients :
       LET new == Enqueued(c) IN
         \A k \in 1..Len(new) :
           new[k].type = "updateShape" =>
             LET live == FindShape(applyOperations(shapes[c], SubSeq(new, 1, k - 1)),
                                   new[k].shapeId)
             IN \A f \in Fields :
                  new[k].previousValues[f] # AbsentOf(f)
                    => new[k].previousValues[f] = live[f]]_vars

\* C35: a step that folds a remote operation into a session's collection
\* leaves the session's undo stack and pending queue as they were, and the
\* undo stack only ever holds inverses of operations the session originated.
C35_SyncLeavesUndoAndQueue ==
  /\ [][\A c \in Clients :
          (\E id \in everApplied'[c] \ everApplied[c] : id.c # c)
            => undoStack'[c] = undoStack[c] /\ pendingOps'[c] = pendingOps[c]]_vars
  /\ [](\A c \in Clients : \A k \in 1..Len(undoStack[c]) :
          /\ undoStack[c][k].id.c = c
          /\ undoStack[c][k].id.inv
          /\ [c |-> c, n |-> undoStack[c][k].id.n, inv |-> FALSE] \in Originated(c))

\* A session with an edit of its own to undo and one still queued has
\* folded an operation of the other session.
C35_Witness ==
  \E c \in Clients :
    /\ undoStack[c] # <<>>
    /\ pendingOps[c] # <<>>
    /\ \E id \in everApplied[c] : id.c # c /\ id \in appliedOpIds[c]

\* A session mounted with a client id of its own and seeded with snapshot:
\* its collection once the remote-ops effect has consumed the rows the query
\* returns for cursor 0.
ReplayOver(snapshot, lg) ==
  applyOperations(snapshot,
                  RemoteLoop([newOps |-> <<>>, applied |-> {}, maxCreationTime |-> 0],
                             getOperationsSince(lg, 0, "new")).newOps)

ShapeSet(ss) == {ss[i] : i \in 1..Len(ss)}

\* C38: a new session seeded with the fold of a prefix of the log, which
\* then consumes the whole log from position 0, ends with the shapes and
\* field values that folding the whole log from the empty collection gives.
C38_ReplayOverSnapshot ==
  \A k \in 0..Len(log) :
    ShapeSet(ReplayOver(ReplayOver(<<>>, SubSeq(log, 1, k)), log))
      = ShapeSet(ReplayOver(<<>>, log))

----------------------------------------------------------------------------
\* getOperationsSince over a table that holds the rows of several designs

MaxRows == 3

\* The n-th row of the designOperations table.
TableRow(n, designId, clientId) ==
  [operationId |-> [c |-> clientId, n |-> n, inv |-> FALSE], operation |-> "op",
   clientId |-> clientId, creationTime |-> 70 * n, designId |-> designId]

\* filtered.map: the fields of a row the query returns.
Returned(e) ==
  [operationId |-> e.operationId, operation |-> e.operation,
   clientId |-> e.clientId, creationTime |-> e.creationTime]

\* The handler of getOperationsSince: an empty result for a caller that is
\* not the owner, else the rows of the design's index range, filtered.
getOperationsSinceHandler(table, args) ==
  IF ~Authorized(args.identity) THEN <<>>
  ELSE LET indexed == SelectSeq(table, LAMBDA e : e.designId = args.designId)
           filtered == getOperationsSince(indexed, args.sinceCreationTime,
                                          args.excludeClientId)
       IN [i \in 1..Len(filtered) |-> Returned(filtered[i])]

\* The arguments of a call and the caller's identity.
QueryArgs(designId, sinceCreationTime, excludeClientId, identity) ==
  [sinceCreationTime |-> sinceCreationTime, excludeClientId |-> excludeClientId,
   identity |-> identity, designId |-> designId]

InitQuery ==
  /\ log = <<>>
  /\ SessionsInit(<<>>)
  /\ StoreIdle
  /\ AuxIdle
  /\ \E n \in 0..MaxRows :
       \E d \in [1..n -> {1, 2}], c \in [1..n -> Clients] :
         fnS = [i \in 1..n |-> TableRow(i, d[i], c[i])]
  /\ fnOp = QueryArgs(1, 0, Undef, "none")
  /\ fnR1 = <<>> /\ fnR2 = <<>> /\ fnStage = "off"

\* A call of the query; excludeClientId is optional.
FnQuery(args) ==
  /\ fnStage = "off"
  /\ fnOp' = args
  /\ fnR1' = getOperationsSinceHandler(fnS, args)
  /\ fnStage' = "queried"
  /\ UNCHANGED <<fnS, fnR2>>
  /\ UNCHANGED <<log, clientVars, idVars, histVars, storeVars, auxVars>>

NextQuery ==
  \E designId \in {1, 2}, since \in {0, 70, 150, 220},
     excludeClientId \in Clients \cup {Undef}, identity \in Identities :
    FnQuery(QueryArgs(designId, since, excludeClientId, identity))

SpecQuery == InitQuery /\ [][NextQuery]_vars

\* A stored row the claim says the call returns.
Requested(e, args) ==
  /\ e.designId = args.designId
  /\ e.creationTime > args.sinceCreationTime
  /\ e.clientId # args.excludeClientId

----------------------------------------------------------------------------
\* getShapeChanges on enumerated pairs of shapes, and the update it builds
\* as another session reads it

\* before and after are two versions of one shape.
InitChanges ==
  /\ log = <<>>
  /\ SessionsInit(<<>>)
  /\ StoreIdle
  /\ AuxIdle
  /\ \E before, after \in ShapePool :
       before.id = after.id /\ fnS = <<before, after>>
  /\ fnOp = NoOp /\ fnR1 = <<>> /\ fnR2 = <<>> /\ fnStage = "input"

\* r1 = the update built from getShapeChanges(before, after); r2 = r1 as
\* serialized for the store and deserialized by the session that reads it.
FnChanges ==
  /\ fnStage = "input"
  /\ LET changes == getShapeChanges(fnS[1], fnS[2])
         op == createUpdateShapeOp(FnId, "A", fnS[1].id, changes.updates,
                                   changes.previousValues)
     IN /\ fnR1' = op
        /\ fnR2' = safeDeserializeOperation(serializeOperation(op))
  /\ fnStage' = "changes"
  /\ UNCHANGED <<fnS, fnOp>>
  /\ UNCHANGED <<log, clientVars, idVars, histVars, storeVars, auxVars>>

SpecChanges == InitChanges /\ [][FnChanges]_vars

\* updates and previousValues name exactly the fields that differ, with the
\* after-values and the before-values.
PairedAsBuilt ==
  fnStage = "changes" =>
    /\ SameKeys(fnR1.updates, fnR1.previousValues)
    /\ \A f \in Fields :
         IF fnS[1][f] # fnS[2][f]
         THEN fnR1.updates[f] = fnS[2][f] /\ fnR1.previousValues[f] = fnS[1][f]
         ELSE fnR1.updates[f] = AbsentOf(f) /\ fnR1.previousValues[f] = AbsentOf(f)

\* C30: the update built by getShapeChanges(before, after) has the same field
\* names in updates and previousValues, exactly those of the fields that
\* differ, with the after- and before-values; and the two key sets are still
\* equal once the operation has been serialized and deserialized.
C30_UpdatePairing ==
  /\ PairedAsBuilt
  /\ fnStage = "changes" => SameKeys(fnR2.updates, fnR2.previousValues)

----------------------------------------------------------------------------
\* Corner resize (transform.ts). A number is a multiple of 1 / Precision;
\* a quotient or a product that is not one is rounded to the nearest, as a
\* double rounds to the nearest of its 53-bit values.

\* Subdivisions of the unit.
Precision == 4

\* Largest width and height of the original bounds.
MaxSide == 3

\* The pointer stays within MaxTarget of the origin.
MaxTarget == 4

Abs(a) == IF a >= 0 THEN a ELSE -a

\* a / b rounded to the nearest integer (a >= 0, b > 0)
RoundDiv(a, b) == (2 * a + b) \div (2 * b)

\* a / b and a * b on numbers held as multiples of 1 / Precision
Div(a, b) == RoundDiv(a * Precision, b)
Mul(a, b) == RoundDiv(a * b, Precision)

Corners == {"nw", "ne", "sw", "se"}

applyCornerResize(bounds, corner, targetX, targetY) ==
  [x1 |-> IF corner \in {"nw", "sw"} THEN targetX ELSE bounds.x,
   y1 |-> IF corner \in {"nw", "ne"} THEN targetY ELSE bounds.y,
   x2 |-> IF corner \in {"ne", "se"} THEN targetX ELSE bounds.x + bounds.width,
   y2 |-> IF corner \in {"sw", "se"} THEN targetY ELSE bounds.y + bounds.height]

\* The constraint switched off: the box the pointer asks for.
constrainToAspectRatioOff(b, aspectRatio, corner) == b

constrainToAspectRatio(b, aspectRatio, corner) ==
  LET newWidth == Abs(b.x2 - b.x1)
      newHeight == Abs(b.y2 - b.y1)
      widthFromHeight == Mul(newHeight, aspectRatio)
      heightFromWidth == Div(newWidth, aspectRatio)
  IN IF widthFromHeight > newWidth
     THEN IF corner \in {"nw", "sw"}
          THEN [b EXCEPT !.x1 = b.x2 - (IF b.x1 < b.x2 THEN widthFromHeight
                                        ELSE -widthFromHeight)]
          ELSE [b EXCEPT !.x2 = b.x1 + (IF b.x2 > b.x1 THEN widthFromHeight
                                        ELSE -widthFromHeight)]
     ELSE IF corner \in {"nw", "ne"}
          THEN [b EXCEPT !.y1 = b.y2 - (IF b.y1 < b.y2 THEN heightFromWidth
                                        ELSE -heightFromWidth)]
          ELSE [b EXCEPT !.y2 = b.y1 + (IF b.y2 > b.y1 THEN heightFromWidth
                                        ELSE -heightFromWidth)]

\* The result without Math.abs: the signed extent from the first corner.
resizeRectShapeSigned(originalBounds, corner, targetX, targetY, preserveAspectRatio) ==
  LET aspectRatio ==
        Div(originalBounds.width,
            IF originalBounds.height # 0 THEN originalBounds.height ELSE Precision)
      free == applyCornerResize(originalBounds, corner, targetX, targetY)
      b == IF preserveAspectRatio
           THEN constrainToAspectRatio(free, aspectRatio, corner) ELSE free
  IN [x |-> b.x1, y |-> b.y1, width |-> b.x2 - b.x1, height |-> b.y2 - b.y1]

resizeRectShape(originalBounds, corner, targetX, targetY, preserveAspectRatio) ==
  LET aspectRatio ==
        Div(originalBounds.width,
            IF originalBounds.height # 0 THEN originalBounds.height ELSE Precision)
      free == applyCornerResize(originalBounds, corner, targetX, targetY)
      b == IF preserveAspectRatio
           THEN constrainToAspectRatio(free, aspectRatio, corner) ELSE free
  IN [x |-> IF b.x1 <= b.x2 THEN b.x1 ELSE b.x2,
      y |-> IF b.y1 <= b.y2 THEN b.y1 ELSE b.y2,
      width |-> Abs(b.x2 - b.x1),
      height |-> Abs(b.y2 - b.y1)]

\* A rect of whole-number width W and height H at the origin, a corner and a
\* whole-number pointer position.
InitResize ==
  /\ log = <<>>
  /\ SessionsInit(<<>>)
  /\ StoreIdle
  /\ AuxIdle
  /\ \E W \in 1..MaxSide, H \in 1..MaxSide, corner \in Corners,
        tx \in -MaxTarget..MaxTarget, ty \in -MaxTarget..MaxTarget :
       fnS = [W |-> W, H |-> H, corner |-> corner,
              bounds |-> [x |-> 0, y |-> 0, width |-> W * Precision,
                          height |-> H * Precision],
              targetX |-> tx * Precision, targetY |-> ty * Precision]
  /\ fnOp = NoOp
  /\ fnR1 = <<>>
  /\ fnR2 = <<>>
  /\ fnStage = "input"

\* r1 = resizeRectShape(shape, bounds, corner, x, y, preserveAspectRatio)
FnResize(preserveAspectRatio) ==
  /\ fnStage = "input"
  /\ fnR1' = resizeRectShape(fnS.bounds, fnS.corner, fnS.targetX, fnS.targetY,
                             preserveAspectRatio)
  /\ fnStage' = IF preserveAspectRatio THEN "locked" ELSE "free"
  /\ UNCHANGED <<fnS, fnOp, fnR2>>
  /\ UNCHANGED <<log, clientVars, idVars, histVars, storeVars, auxVars>>

NextResize == \E preserveAspectRatio \in BOOLEAN : FnResize(preserveAspectRatio)

SpecResize == InitResize /\ [][NextResize]_vars

\* The corner of the original bounds opposite to the dragged one is a corner
\* of the box r.
AnchorKept(r) ==
  LET ax == IF fnS.corner \in {"nw", "sw"} THEN fnS.bounds.x + fnS.bounds.width
            ELSE fnS.bounds.x
      ay == IF fnS.corner \in {"nw", "ne"} THEN fnS.bounds.y + fnS.bounds.height
            ELSE fnS.bounds.y
  IN /\ ax \in {r.x, r.x + r.width}
     /\ ay \in {r.y, r.y + r.height}

----------------------------------------------------------------------------
\* Moving a shape and resizing a path, on shapes with coordinates
\* (transform.ts, lib/index.ts)

\* Longest path.
MaxPoints == 2

GeoKinds == {"rect", "ellipse", "line", "text", "svg", "image", "path"}

\* A point of a path; moveTo is optional.
PathPoint(x, y, moveTo) == [x |-> x, y |-> y, moveTo |-> moveTo]

\* translatePoint(point, dx, dy): { x: point.x + dx, y: point.y + dy }
translatePoint(point, dx, dy) == PathPoint(point.x + dx, point.y + dy, Undef)

\* translatePoints(points, dx, dy), on points with coordinates
translatePointsXY(points, dx, dy) ==
  [i \in 1..Len(points) |-> translatePoint(points[i], dx, dy)]

\* moveShape(shape, dx, dy), on shapes with coordinates
moveShapeXY(shape, dx, dy) ==
  CASE shape.type = "line" ->
         [shape EXCEPT !.x = @ + dx, !.y = @ + dy, !.x2 = @ + dx, !.y2 = @ + dy]
    [] shape.type = "path" ->
         [shape EXCEPT !.points = translatePointsXY(@, dx, dy)]
    [] OTHER -> [shape EXCEPT !.x = @ + dx, !.y = @ + dy]

SetMin(S) == CHOOSE m \in S : \A n \in S : m <= n
SetMax(S) == CHOOSE m \in S : \A n \in S : m >= n

boundingBox(points) ==
  IF points = <<>> THEN [x |-> 0, y |-> 0, width |-> 0, height |-> 0]
  ELSE LET xs == {points[i].x : i \in 1..Len(points)}
           ys == {points[i].y : i \in 1..Len(points)}
       IN [x |-> SetMin(xs), y |-> SetMin(ys),
           width |-> SetMax(xs) - SetMin(xs), height |-> SetMax(ys) - SetMin(ys)]

\* a || 1
OrOne(a) == IF a # 0 THEN a ELSE Precision

scalePoints(points, fromBounds, toBounds) ==
  LET scaleX == Div(OrOne(toBounds.width), OrOne(fromBounds.width))
      scaleY == Div(OrOne(toBounds.height), OrOne(fromBounds.height))
  IN [i \in 1..Len(points) |->
        PathPoint(toBounds.x + Mul(points[i].x - fromBounds.x, scaleX),
                  toBounds.y + Mul(points[i].y - fromBounds.y, scaleY), Undef)]

resizePathShape(shape, originalPoints, corner, targetX, targetY, preserveAspectRatio) ==
  IF originalPoints = <<>> THEN shape
  ELSE LET originalBounds == boundingBox(originalPoints)
           aspectRatio == Div(OrOne(originalBounds.width), OrOne(originalBounds.height))
           free == applyCornerResize(originalBounds, corner, targetX, targetY)
           b == IF preserveAspectRatio
                THEN constrainToAspectRatio(free, aspectRatio, corner) ELSE free
           newBounds == [x |-> IF b.x1 <= b.x2 THEN b.x1 ELSE b.x2,
                         y |-> IF b.y1 <= b.y2 THEN b.y1 ELSE b.y2,
                         width |-> OrOne(Abs(b.x2 - b.x1)),
                         height |-> OrOne(Abs(b.y2 - b.y1))]
       IN [shape EXCEPT !.points = scalePoints(originalPoints, originalBounds, newBounds)]

\* Whole-number coordinates.
GeoCoords == {0, 2 * Precision}

\* A path as the pencil draws it: the first point of every stroke carries
\* moveTo: true, the other points no flag.
PathPoints ==
  {pts \in SeqsUpTo({PathPoint(x, y, m) : x \in GeoCoords, y \in GeoCoords,
                                         m \in {Undef, "true"}}, MaxPoints) :
     pts # <<>> /\ pts[1].moveTo = "true"}

GeoShapes ==
  {[type |-> k, x |-> x, y |-> y, x2 |-> Undef, y2 |-> Undef, points |-> Undef,
    fill |-> "red"] : k \in GeoKinds \ {"line", "path"}, x \in GeoCoords, y \in GeoCoords}
  \cup {[type |-> "line", x |-> x, y |-> y, x2 |-> x2, y2 |-> 0, points |-> Undef,
         fill |-> "red"] : x \in GeoCoords, y \in GeoCoords, x2 \in GeoCoords}
  \cup {[type |-> "path", x |-> 0, y |-> 0, x2 |-> Undef, y2 |-> Undef, points |-> pts,
         fill |-> "red"] : pts \in PathPoints}

\* The arguments of a call.
GeoArgs(dx, dy, corner, preserveAspectRatio) ==
  [dx |-> dx, dy |-> dy, corner |-> corner, preserveAspectRatio |-> preserveAspectRatio]

InitGeo ==
  /\ log = <<>>
  /\ SessionsInit(<<>>)
  /\ StoreIdle
  /\ AuxIdle
  /\ fnS \in GeoShapes
  /\ fnOp = GeoArgs(0, 0, "se", FALSE)
  /\ fnR1 = <<>> /\ fnR2 = <<>> /\ fnStage = "input"

\* r1 = moveShape(s, dx, dy); r2 = moveShape(r1, -dx, -dy)
FnMove(dx, dy) ==
  /\ fnStage = "input"
  /\ fnOp' = GeoArgs(dx, dy, "se", FALSE)
  /\ fnR1' = moveShapeXY(fnS, dx, dy)
  /\ fnR2' = moveShapeXY(moveShapeXY(fnS, dx, dy), -dx, -dy)
  /\ fnStage' = "moved"
  /\ UNCHANGED fnS
  /\ UNCHANGED <<log, clientVars, idVars, histVars, storeVars, auxVars>>

\* r1 = resizePathShape(s, s.points, corner, x, y, preserveAspectRatio)
FnResizePath(corner, targetX, targetY, preserveAspectRatio) ==
  /\ fnStage = "input"
  /\ fnS.type = "path"
  /\ fnOp' = GeoArgs(targetX, targetY, corner, preserveAspectRatio)
  /\ fnR1' = resizePathShape(fnS, fnS.points, corner, targetX, targetY,
                             preserveAspectRatio)
  /\ fnStage' = "resized"
  /\ UNCHANGED <<fnS, fnR2>>
  /\ UNCHANGED <<log, clientVars, idVars, histVars, storeVars, auxVars>>

NextGeo ==
  \/ \E dx, dy \in {-Precision, 0, Precision} : FnMove(dx, dy)
  \/ \E corner \in Corners, tx, ty \in {-Precision, Precision, 3 * Precision},
        preserveAspectRatio \in BOOLEAN :
       FnResizePath(corner, tx, ty, preserveAspectRatio)

SpecGeo == InitGeo /\ [][NextGeo]_vars

\* The shapes that are not paths are translated and nothing else changes.
MovedByDelta ==
  (fnStage = "moved" /\ fnS.type # "path") =>
    /\ fnR1 = IF fnS.type = "line"
              THEN [fnS EXCEPT !.x = @ + fnOp.dx, !.y = @ + fnOp.dy,
                               !.x2 = @ + fnOp.dx, !.y2 = @ + fnOp.dy]
              ELSE [fnS EXCEPT !.x = @ + fnOp.dx, !.y = @ + fnOp.dy]
    /\ fnR2 = fnS

\* C31: moveShape(s, dx, dy) adds (dx, dy) to x and y of a rect, ellipse,
\* text, svg or image, to both endpoints of a line and to every point of a
\* path, and changes no other attribute; moving back by (-dx, -dy) gives s
\* again, for every kind.
C31_MoveTranslates ==
  /\ MovedByDelta
  /\ (fnStage = "moved" /\ fnS.type = "path") =>
       /\ [fnR1 EXCEPT !.points = fnS.points] = fnS
       /\ Len(fnR1.points) = Len(fnS.points)
       /\ \A i \in 1..Len(fnS.points) :
            fnR1.points[i] = [fnS.points[i] EXCEPT !.x = @ + fnOp.dx, !.y = @ + fnOp.dy]
       /\ fnR2 = fnS

\* C39: moveShape and resizePathShape return a path with as many points as
\* the path they were given, in the same order, each with its moveTo flag.
C39_StrokeStructureKept ==
  (fnStage \in {"moved", "resized"} /\ fnS.type = "path") =>
    /\ Len(fnR1.points) = Len(fnS.points)
    /\ \A i \in 1..Len(fnS.points) : fnR1.points[i].moveTo = fnS.points[i].moveTo
    /\ fnStage = "moved" =>
         \A i \in 1..Len(fnS.points) :
           /\ fnR1.points[i].x = fnS.points[i].x + fnOp.dx
           /\ fnR1.points[i].y = fnS.points[i].y + fnOp.dy

----------------------------------------------------------------------------
\* Z-order commands (commandHandlers.ts)

\* Most shapes of a collection applyZOrder is tried on.
MaxZ == 3

ZOrderCommands == {"bringToFront", "sendToBack", "moveUp", "moveDown"}

\* shapes.findIndex((s) => s.id === targetId), 1-based; 0 when there is none
FindIndex(ss, targetId) ==
  IF HasShape(ss, targetId)
  THEN CHOOSE i \in 1..Len(ss) : ss[i].id = targetId /\ \A j \in 1..i - 1 : ss[j].id # targetId
  ELSE 0

\* splice that puts the shape at the end whatever the position asked for.
InsertAtEnd(ss, k, s) == Append(ss, s)

\* newShapes.splice(k - 1, 0, s): s becomes the k-th element.
InsertAt(ss, k, s) == SubSeq(ss, 1, k - 1) \o <<s>> \o SubSeq(ss, k, Len(ss))

\* applyZOrder(shapes, targetId, command): the reordered array, or null.
applyZOrder(ss, targetId, command) ==
  LET idx == FindIndex(ss, targetId)
      newShapes == SubSeq(ss, 1, idx - 1) \o SubSeq(ss, idx + 1, Len(ss))
      null == [isNull |-> TRUE, shapes |-> <<>>]
  IN IF idx = 0 THEN null
     ELSE CASE command = "bringToFront" ->
                 [isNull |-> FALSE, shapes |-> Append(newShapes, ss[idx])]
            [] command = "sendToBack" ->
                 [isNull |-> FALSE, shapes |-> <<ss[idx]>> \o newShapes]
            [] command = "moveUp" ->
                 IF idx >= Len(ss) THEN null
                 ELSE [isNull |-> FALSE, shapes |-> InsertAt(newShapes, idx + 1, ss[idx])]
            [] command = "moveDown" ->
                 IF idx <= 1 THEN null
                 ELSE [isNull |-> FALSE, shapes |-> InsertAt(newShapes, idx - 1, ss[idx])]

\* A collection of up to MaxZ shapes with distinct ids, a target id (MaxZ + 1
\* is in none of them) and a command.
InitZOrder ==
  /\ log = <<>>
  /\ SessionsInit(<<>>)
  /\ StoreIdle
  /\ AuxIdle
  /\ fnS \in {ss \in SeqsUpTo({NewShape(i) : i \in 1..MaxZ}, MaxZ) : DistinctIds(ss)}
  /\ \E targetId \in 1..MaxZ + 1, command \in ZOrderCommands :
       fnOp = [targetId |-> targetId, command |-> command]
  /\ fnR1 = <<>>
  /\ fnR2 = <<>>
  /\ fnStage = "input"

\* const reordered = applyZOrder(shapes, targetId, toolCmd.tool);
\* r2 is the collection after if (reordered) setShapes(reordered).
FnZOrder ==
  /\ fnStage = "input"
  /\ LET reordered == applyZOrder(fnS, fnOp.targetId, fnOp.command) IN
       /\ fnR1' = reordered
       /\ fnR2' = IF reordered.isNull THEN fnS ELSE reordered.shapes
  /\ fnStage' = "reordered"
  /\ UNCHANGED <<fnS, fnOp>>
  /\ UNCHANGED <<log, clientVars, idVars, histVars, storeVars, auxVars>>

SpecZOrder == InitZOrder /\ [][FnZOrder]_vars

\* ss with its i-th and j-th shapes exchanged.
Swapped(ss, i, j) == [ss EXCEPT ![i] = ss[j], ![j] = ss[i]]

\* C22: applyZOrder reorders without loss. For every collection and target id
\* in it the collection after the command is a permutation of the input that
\* keeps the relative order of all other shapes; bringToFront puts the target
\* last, sendToBack first, moveUp and moveDown exchange it with the shape
\* above and below, and moveUp on the last or moveDown on the first shape
\* changes nothing.
C22_ZOrderReorders ==
  (fnStage = "reordered" /\ HasShape(fnS, fnOp.targetId)) =>
    LET idx == FindIndex(fnS, fnOp.targetId)
        n == Len(fnS)
        others(ss) == SelectSeq(ss, LAMBDA s : s.id # fnOp.targetId)
    IN /\ Len(fnR2) = n
       /\ \A i \in 1..n : \E j \in 1..n : fnR2[j] = fnS[i]
       /\ others(fnR2) = others(fnS)
       /\ fnOp.command = "bringToFront" => fnR2[n] = fnS[idx]
       /\ fnOp.command = "sendToBack" => fnR2[1] = fnS[idx]
       /\ fnOp.command = "moveUp" =>
            fnR2 = IF idx < n THEN Swapped(fnS, idx, idx + 1) ELSE fnS
       /\ fnOp.command = "moveDown" =>
            fnR2 = IF idx > 1 THEN Swapped(fnS, idx, idx - 1) ELSE fnS

\* bringToFront on the first of [s1, s2, s3] gave [s2, s3, s1].
C22_Witness ==
  /\ fnStage = "reordered"
  /\ fnOp.command = "bringToFront"
  /\ Len(fnS) = 3
  /\ fnOp.targetId = fnS[1].id
  /\ fnR2 = <<fnS[2], fnS[3], fnS[1]>>

----------------------------------------------------------------------------
\* Z-order commands in a session (applyCommandGroup), with another session
\* open on the design

\* Two sessions open on a design of two shapes; designs.config is the
\* config the design row holds.
InitLayers ==
  /\ log = <<>>
  /\ SessionsInit(<<NewShape(1), NewShape(2)>>)
  /\ StoreIdle
  /\ FnIdle
  /\ undoCalls = NoUndoCall
  /\ ui = [c \in Clients |-> UiIdle]
  /\ gesture = [c \in Clients |-> NoGesture]
  /\ remoteOps = [c \in Clients |-> <<>>]
  /\ designs = [OneDesign EXCEPT !.config = <<NewShape(1), NewShape(2)>>]

\* A z-order command of a command group: the collection is replaced by the
\* reordered one and the whole collection is written to the design's config
\* (updateDesignConfig).  No operation is created.  The other sessions get
\* the new config as design.initialShapes, which the initialize effect
\* ignores while design.id is the same.
ZOrderCommand(c, targetId, command) ==
  /\ alive[c]
  /\ LET reordered == applyZOrder(shapes[c], targetId, command) IN
       /\ ~reordered.isNull
       /\ shapes' = [shapes EXCEPT ![c] = reordered.shapes]
       /\ designs' = [designs EXCEPT !.config = reordered.shapes]
  /\ UNCHANGED <<log, undoStack, pendingOps, flushTimeout, lastCreationTime,
                 appliedOpIds, inflight, alive, idVars, histVars>>
  /\ UNCHANGED <<storeVars, fnVars, undoCalls, ui, gesture, remoteOps>>

NextLayers ==
  \/ \E c \in Clients, targetId \in 1..2, command \in ZOrderCommands :
       ZOrderCommand(c, targetId, command)
  \/ \E c \in Clients, i \in 1..2, u \in UpdateChoices : LocalUpdate(c, i, u)
  \/ \E c \in Clients : TimerFire(c)
  \/ \E c \in Clients : FlushOk(c)
  \/ \E c \in Clients : Sync(c)

SpecLayers == InitLayers /\ [][NextLayers]_vars

\* Nothing is queued or in flight and every session has consumed the log.
AllSynced ==
  \A c \in Clients :
    pendingOps[c] = <<>> /\ inflight[c] = <<>> /\ RemoteOps(c) = <<>>

\* C37: once all sessions are quiescent and fully synced after a reorder,
\* every open session of the design has its shapes in the same order.
C37_ZOrderConverges ==
  AllSynced =>
    \A c, d \in Clients :
      (alive[c] /\ alive[d]) =>
        [i \in 1..Len(shapes[c]) |-> shapes[c][i].id]
          = [i \in 1..Len(shapes[d]) |-> shapes[d][i].id]

----------------------------------------------------------------------------
\* Claims about the synchronisation protocol

Quiescent(c) == alive[c] /\ pendingOps[c] = <<>> /\ inflight[c] = <<>>

\* Log positions c has consumed: its own entries by local apply, the others'
\* by incoming sync.
Consumed(c) ==
  {i \in 1..Len(log) : log[i].clientId = c \/ log[i].operationId \in appliedOpIds[c]}

\* C1: convergence. Two sessions with empty queues, nothing in flight and the
\* same consumed log prefix hold identical collections.
C1_Convergence ==
  \A a, b \in Clients :
    (/\ Quiescent(a) /\ Quiescent(b)
     /\ \E n \in 0..Len(log) : Consumed(a) = 1..n /\ Consumed(b) = 1..n)
    => shapes[a] = shapes[b]

\* C2: the cursor covers only what was consumed. Every entry of another
\* client at a position up to the session's cursor is in its applied-id set.
C2_CursorCovers ==
  \A c \in Clients : \A i \in 1..Len(log) :
    (log[i].clientId # c /\ log[i].creationTime <= lastCreationTime[c])
    => log[i].operationId \in appliedOpIds[c]

\* C3: a batch sent again is harmless. The log holds exactly one entry per
\* re-sent operation id and at most one per id, no session folds an operation
\* id into its collection twice, and no collection holds a shape twice.
C3_RetrySafe ==
  /\ \A i, j \in 1..Len(log) : log[i].operationId = log[j].operationId => i = j
  /\ \A id \in resent : Stored(id)
  /\ dupApplied = {}
  /\ \A c \in Clients : DistinctIds(shapes[c])

\* A batch reached the store a second time, its session is quiescent again,
\* and the other session has consumed the re-sent operation.
C3_Witness ==
  \E c, d \in Clients : \E id \in resent :
    /\ c # d /\ id.c = c
    /\ Quiescent(c)
    /\ id \in appliedOpIds[d]
    /\ id \in everApplied[d]

\* The shape with the given id in c's collection has the given fill.
FillIs(c, shapeId, v) ==
  \A k \in 1..Len(shapes[c]) : shapes[c][k].id = shapeId => shapes[c][k].fill = v

\* C7: last write wins by log order. Two sessions updated the same field of
\* the same shape, both updates are stored and each session has consumed the
\* other's: both hold the value of the later log entry.
C7_LastWriteWins ==
  \A a, b \in Clients :
    (/\ a # b /\ Len(log) = 2 /\ undone = 0
     /\ Quiescent(a) /\ Quiescent(b)
     /\ log[1].clientId = a /\ log[2].clientId = b
     /\ log[1].operation.type = "updateShape" /\ log[2].operation.type = "updateShape"
     /\ log[1].operation.shapeId = log[2].operation.shapeId
     /\ log[1].operation.updates.fill # Absent
     /\ log[2].operation.updates.fill # Absent
     /\ log[2].operationId \in appliedOpIds[a]
     /\ log[1].operationId \in appliedOpIds[b])
    => /\ FillIs(a, log[2].operation.shapeId, log[2].operation.updates.fill)
       /\ FillIs(b, log[2].operation.shapeId, log[2].operation.updates.fill)

\* C8: a failed flush keeps its batch. The batch is back at the front of the
\* queue in its order, ahead of what was queued while it was in flight, and
\* the queue holds no operation twice.
C8_RequeueInFront ==
  \A c \in Clients :
    /\ IsPrefixOf(requeued[c].batch \o requeued[c].during, pendingOps[c])
    /\ \A i, j \in 1..Len(pendingOps[c]) :
         pendingOps[c][i].id = pendingOps[c][j].id => i = j

\* A flush failed while another operation had been queued behind it.
C8_Witness ==
  \E c \in Clients : requeued[c].batch # <<>> /\ requeued[c].during # <<>>

\* C9: teardown loses no edit. Once an ended session has no append in
\* flight, every operation queued at its end is stored.
C9_TeardownStored ==
  \A c \in Clients :
    (~alive[c] /\ inflight[c] = <<>>) => \A id \in teardownOps[c] : Stored(id)

\* C12: undo is replicated as a normal edit. Session a made one edit and undid
\* it, both operations are stored and session b has consumed them: b's
\* collection equals a's, and both are back at the seeded collection.
C12_UndoReplicated ==
  \A a, b \in Clients :
    (/\ a # b
     /\ lastUndo.client = a
     /\ SumOver(nextOp, Clients) = 1
     /\ Len(log) = 2
     /\ \A i \in 1..Len(log) : log[i].operationId \in appliedOpIds[b]
     /\ Quiescent(a) /\ Quiescent(b))
    => /\ shapes[b] = shapes[a]
       /\ shapes[a] \in InitialShapesChoices

----------------------------------------------------------------------------
\* Claims about the store (checked under SpecStore)

----------------------------------------------------------------------------
\* Claims about the end-to-end scenario (checked under SpecE2E)

AddR1 == [c |-> "A", n |-> 1, inv |-> FALSE]
UndoAddR1 == [c |-> "A", n |-> 1, inv |-> TRUE]
DelR1 == [c |-> "B", n |-> 1, inv |-> FALSE]

\* C6: A adds r1, B deletes it. Once A has synced B's delete its collection
\* has no r1; A's undo of its add after that changes nothing; and B, having
\* consumed that undo, has no r1 either.
C6_EndToEnd ==
  /\ DelR1 \in appliedOpIds["A"] => ~HasShape(shapes["A"], 1)
  /\ (Stored(DelR1) /\ RemoteOps("A") = <<>>) => ~HasShape(shapes["A"], 1)
  /\ (lastUndo.client = "A" /\ DelR1 \in lastUndo.applied)
       => (lastUndo.after = lastUndo.before /\ ~HasShape(lastUndo.after, 1))
  /\ UndoAddR1 \in appliedOpIds["B"] => ~HasShape(shapes["B"], 1)

\* A undid its add after consuming B's delete, and B has consumed the undo.
C6_Witness ==
  /\ lastUndo.client = "A"
  /\ DelR1 \in lastUndo.applied
  /\ Stored(AddR1) /\ Stored(DelR1) /\ Stored(UndoAddR1)
  /\ UndoAddR1 \in appliedOpIds["B"]

====
